---- MODULE Spec2Model ----
(***************************************************************************)
(* Model of the mortgage return scenario calculator                        *)
(* (src/mortgage_return_scenario_calculator).                              *)
(*                                                                         *)
(* Amounts and rates are Python floats in the source.  Here they are exact *)
(* rationals <<n, d>> in lowest terms with d > 0; d = 0 stands for the     *)
(* IEEE values the source can produce: <<1, 0>> = +inf, <<-1, 0>> = -inf,  *)
(* <<0, 0>> = nan.  The scenarios drawn keep every numerator and           *)
(* denominator inside TLC's integers: rates are 0 or 12 (a monthly rate of *)
(* 1, so (1 + rate/12)^n is a power of two) and loans are multiples of     *)
(* LoanUnit, a divisor of 2^24 - 1.                                        *)
(***************************************************************************)
EXTENDS Integers, Sequences, FiniteSets, TLC

(***************************************************************************)
(* Exact rational arithmetic, extended with inf and nan.                   *)
(***************************************************************************)
Abs(n) == IF n < 0 THEN -n ELSE n

Sign(n) == IF n < 0 THEN -1 ELSE IF n > 0 THEN 1 ELSE 0

RECURSIVE GCD(_, _)
GCD(a, b) == IF b = 0 THEN a ELSE GCD(b, a % b)

Norm(n, d) ==
    IF d = 0 THEN <<Sign(n), 0>>
    ELSE LET g == GCD(Abs(n), Abs(d))
             s == Sign(d)
         IN  <<(s * n) \div g, (s * d) \div g>>

Q(n) == <<n, 1>>
Zero == <<0, 1>>
One == <<1, 1>>
Inf == <<1, 0>>
NaN == <<0, 0>>

IsFinite(a) == a[2] # 0
IsNaN(a) == a = NaN

RNeg(a) == <<-a[1], a[2]>>

RAdd(a, b) ==
    IF IsFinite(a) /\ IsFinite(b)
    THEN LET g == GCD(a[2], b[2])
         IN  Norm(a[1] * (b[2] \div g) + b[1] * (a[2] \div g), (a[2] \div g) * b[2])
    ELSE IF IsNaN(a) \/ IsNaN(b) THEN NaN
    ELSE IF IsFinite(a) THEN b
    ELSE IF IsFinite(b) THEN a
    ELSE IF a = b THEN a ELSE NaN

RSub(a, b) == RAdd(a, RNeg(b))

RMul(a, b) ==
    IF IsFinite(a) /\ IsFinite(b)
    THEN LET g1 == GCD(Abs(a[1]), b[2])
             g2 == GCD(Abs(b[1]), a[2])
         IN  <<(a[1] \div g1) * (b[1] \div g2), (a[2] \div g2) * (b[2] \div g1)>>
    ELSE IF IsNaN(a) \/ IsNaN(b) \/ a[1] = 0 \/ b[1] = 0 THEN NaN
    ELSE <<Sign(a[1]) * Sign(b[1]), 0>>

\* 1 / a as numpy divides: an infinity for a zero, 0 for an infinity and nan
\* for nan.
RInv(a) ==
    IF IsFinite(a) THEN Norm(a[2], a[1])
    ELSE IF IsNaN(a) THEN NaN
    ELSE Zero

RDiv(a, b) == RMul(a, RInv(b))

\* a < b as IEEE compares: every comparison with nan is false.
RLt(a, b) ==
    IF IsNaN(a) \/ IsNaN(b) THEN FALSE
    ELSE IF IsFinite(a) /\ IsFinite(b) THEN RSub(a, b)[1] < 0
    ELSE IF ~IsFinite(a) /\ ~IsFinite(b) THEN a[1] < b[1]
    ELSE IF IsFinite(a) THEN b[1] > 0
    ELSE a[1] < 0

RGt(a, b) == RLt(b, a)
RLe(a, b) == ~IsNaN(a) /\ ~IsNaN(b) /\ ~RLt(b, a)
RGe(a, b) == RLe(b, a)

RMax(a, b) == IF RGt(b, a) THEN b ELSE a

\* a ** k for an integer k, the exact power: 1 for k = 0 whatever a is, and
\* 1 / a ** -k for k below 0.  Like every operation on fractions it is for
\* powers whose numerator and denominator are within TLC's integers (below
\* 2^31); a larger one stops the evaluation with an overflow error and is
\* never rounded.
RECURSIVE RPow(_, _)
RPow(a, k) ==
    IF k = 0 THEN One
    ELSE IF k < 0 THEN RInv(RPow(a, -k))
    ELSE RMul(a, RPow(a, k - 1))

Min(a, b) == IF b < a THEN b ELSE a

None == <<>>
Some(x) == <<x>>
Get(o) == o[1]

(***************************************************************************)
(* IEEE-754 double arithmetic, bit by bit, for the quotient of two         *)
(* positive integers and the product of a double and a positive integer.   *)
(* A positive double is <<bits, e>>: bits is its 53-bit significand, most  *)
(* significant bit first (a 1), and its value is bits * 2^e.  Rounding is  *)
(* to nearest, ties to even.  Products and quotients by an integer take    *)
(* the significand LimbBits bits at a time.                                *)
(***************************************************************************)
SignificandBits == 53
LimbBits == 13

RECURSIVE Pow2(_)
Pow2(k) == IF k = 0 THEN 1 ELSE 2 * Pow2(k - 1)

RECURSIVE Binary(_)
Binary(n) == IF n = 0 THEN <<>> ELSE Append(Binary(n \div 2), n % 2)

Zeros(k) == [i \in 1..k |-> 0]

\* The number a short sequence of bits writes.
RECURSIVE BitsValue(_)
BitsValue(bits) ==
    IF bits = <<>> THEN 0
    ELSE 2 * BitsValue(SubSeq(bits, 1, Len(bits) - 1)) + bits[Len(bits)]

\* bits as digits of LimbBits bits each, and a digit as its bits.
Limbs(bits) ==
    LET k == (Len(bits) + LimbBits - 1) \div LimbBits
        padded == Zeros(k * LimbBits - Len(bits)) \o bits
    IN  [i \in 1..k |-> BitsValue(SubSeq(padded, (i - 1) * LimbBits + 1, i * LimbBits))]

LimbAsBits(v) == Zeros(LimbBits - Len(Binary(v))) \o Binary(v)

\* The position of the first 1 of bits, Len(bits) + 1 when there is none.
FirstOne(bits) ==
    IF \A i \in 1..Len(bits) : bits[i] = 0 THEN Len(bits) + 1
    ELSE CHOOSE k \in 1..Len(bits) : bits[k] = 1 /\ \A j \in 1..(k - 1) : bits[j] = 0

StripZeros(bits) == SubSeq(bits, FirstOne(bits), Len(bits))

\* k more bits of a quotient with divisor d and remainder r < d so far:
\* <<the bits, the last remainder>>.
RECURSIVE LongDivision(_, _, _, _)
LongDivision(r, d, k, bits) ==
    IF k = 0 THEN <<bits, r>>
    ELSE IF 2 * r >= d THEN LongDivision(2 * r - d, d, k - 1, Append(bits, 1))
    ELSE LongDivision(2 * r, d, k - 1, Append(bits, 0))

\* bits + 1, for bits that are not all ones: the last 0 becomes 1 and the
\* ones after it 0.
AddOne(bits) ==
    LET last == CHOOSE k \in 1..Len(bits) :
                    bits[k] = 0 /\ \A j \in (k + 1)..Len(bits) : bits[j] = 1
    IN  [i \in 1..Len(bits) |-> IF i < last THEN bits[i] ELSE IF i = last THEN 1 ELSE 0]

NextDouble(x) ==
    IF \A i \in 1..Len(x[1]) : x[1][i] = 1
    THEN <<(<<1>> \o Zeros(SignificandBits - 1)), x[2] + 1>>
    ELSE <<AddOne(x[1]), x[2]>>

\* The double nearest to bits * 2^e plus a discarded part that is below
\* (-1), equal to (0) or above (1) half a unit in the last place.
RoundNearestEven(bits, e, discarded) ==
    IF discarded > 0 \/ (discarded = 0 /\ bits[Len(bits)] = 1)
    THEN NextDouble(<<bits, e>>)
    ELSE <<bits, e>>

DoubleOfInt(p) ==
    LET b == Binary(p)
    IN  <<b \o Zeros(SignificandBits - Len(b)), Len(b) - SignificandBits>>

\* The quotient of limbs by n from digit i on, with the remainder r < n so
\* far: <<the quotient's bits, the last remainder>>.
RECURSIVE DivideLimbs(_, _, _, _, _)
DivideLimbs(limbs, i, n, r, q) ==
    IF i > Len(limbs) THEN <<q, r>>
    ELSE DivideLimbs(limbs, i + 1, n, (r * Pow2(LimbBits) + limbs[i]) % n,
                     q \o LimbAsBits((r * Pow2(LimbBits) + limbs[i]) \div n))

\* bits divided by n: <<the quotient, as many bits as bits, the remainder>>.
DivideBits(bits, n) ==
    LET d == DivideLimbs(Limbs(bits), 1, n, 0, <<>>)
    IN  <<SubSeq(d[1], Len(d[1]) - Len(bits) + 1, Len(d[1])), d[2]>>

\* x / n in double arithmetic, x a positive double and n a positive integer.
DoubleDivPositive(x, n) ==
    LET first == DivideBits(x[1], n)
        lead == StripZeros(first[1])
        more == SignificandBits - Len(lead)
        q == LongDivision(first[2], n, more, lead)
    IN  RoundNearestEven(q[1], x[2] - more, Sign(2 * q[2] - n))

\* p / n in double arithmetic, p and n positive integers.
DoubleDiv(p, n) == DoubleDivPositive(DoubleOfInt(p), n)

\* limbs * n from digit i down, with the carry coming in and the low bits of
\* the product so far: <<the low bits, the carry out>>.
RECURSIVE TimesInt(_, _, _, _, _)
TimesInt(limbs, i, n, carry, low) ==
    IF i = 0 THEN <<low, carry>>
    ELSE TimesInt(limbs, i - 1, n, (limbs[i] * n + carry) \div Pow2(LimbBits),
                  LimbAsBits((limbs[i] * n + carry) % Pow2(LimbBits)) \o low)

\* x * n in double arithmetic, x a positive double and n a positive integer.
DoubleMulInt(x, n) ==
    LET t == TimesInt(Limbs(x[1]), Len(Limbs(x[1])), n, 0, <<>>)
        product == StripZeros(Binary(t[2]) \o t[1])
        extra == Len(product) - SignificandBits
        dropped == SubSeq(product, SignificandBits + 1, Len(product))
        discarded == IF extra = 0 \/ dropped[1] = 0 THEN -1
                     ELSE IF \E i \in 2..extra : dropped[i] = 1 THEN 1
                     ELSE 0
    IN  RoundNearestEven(SubSeq(product, 1, SignificandBits), x[2] + extra, discarded)

(***************************************************************************)
(* Signed doubles, for sums, differences and quotients by an integer: a    *)
(* double other than 0.0 is <<s, bits, e>>, s its sign (1 or -1) and        *)
(* <<bits, e>> its magnitude as above; 0.0 (of either sign, which compare   *)
(* equal) is DoubleZero.                                                    *)
(***************************************************************************)
DoubleZero == <<0, <<>>, 0>>

Signed(s, x) == <<s, x[1], x[2]>>
Magnitude(x) == <<x[2], x[3]>>
DoubleNeg(x) == <<-x[1], x[2], x[3]>>

\* 1, 0 or -1 as a is above, equal to or below b; a and b of one length.
CompareBits(a, b) ==
    IF a = b THEN 0
    ELSE LET i == CHOOSE k \in 1..Len(a) :
                      a[k] # b[k] /\ \A j \in 1..(k - 1) : a[j] = b[j]
         IN  IF a[i] > b[i] THEN 1 ELSE -1

\* The carry into bit i of a + b, a and b of one length: a lower bit makes a
\* carry and every bit between passes it on.
CarryInto(a, b, i) ==
    IF \E j \in (i + 1)..Len(a) :
           a[j] + b[j] = 2 /\ \A m \in (i + 1)..(j - 1) : a[m] + b[m] = 1
    THEN 1 ELSE 0

\* a + b, one bit longer than a and b.
AddBits(a, b) ==
    [i \in 1..(Len(a) + 1) |->
        IF i = 1 THEN CarryInto(a, b, 0)
        ELSE (a[i - 1] + b[i - 1] + CarryInto(a, b, i - 1)) % 2]

\* The borrow bit i of a - b takes from the bits above it.
BorrowFrom(a, b, i) ==
    IF \E j \in (i + 1)..Len(a) :
           a[j] < b[j] /\ \A m \in (i + 1)..(j - 1) : a[m] = b[m]
    THEN 1 ELSE 0

\* a - b for a >= b.
SubBits(a, b) ==
    [i \in 1..Len(a) |-> (a[i] - b[i] - BorrowFrom(a, b, i) + 2) % 2]

\* The double nearest to s * bits * 2^e, bits of any length.
DoubleOfBits(s, bits, e) ==
    LET b == StripZeros(bits)
        extra == Len(b) - SignificandBits
        dropped == SubSeq(b, SignificandBits + 1, Len(b))
        discarded == IF dropped[1] = 0 THEN -1
                     ELSE IF \E i \in 2..extra : dropped[i] = 1 THEN 1
                     ELSE 0
    IN  IF b = <<>> THEN DoubleZero
        ELSE IF extra <= 0 THEN <<s, b \o Zeros(-extra), e + extra>>
        ELSE Signed(s, RoundNearestEven(SubSeq(b, 1, SignificandBits), e + extra,
                                        discarded))

\* The working precision of a sum: the significand and three bits below it,
\* the last of them set when anything lower is (the sticky bit).
GuardBits == 3

\* The significand bits of a double whose exponent is gap below that of the
\* larger operand, at the working precision of that operand.
Aligned(bits, gap) ==
    LET n == SignificandBits + GuardBits
        kept == n - gap
        sticky == IF \E i \in (IF kept < 1 THEN 1 ELSE kept)..SignificandBits : bits[i] = 1
                  THEN 1 ELSE 0
    IN  IF gap <= GuardBits THEN Zeros(gap) \o bits \o Zeros(GuardBits - gap)
        ELSE IF kept <= 1 THEN Zeros(n - 1) \o <<1>>
        ELSE Zeros(gap) \o SubSeq(bits, 1, kept - 1) \o <<sticky>>

\* x + y in double arithmetic, for x of the larger exponent.
DoubleAddOrdered(x, y) ==
    LET e == x[3] - GuardBits
        a == x[2] \o Zeros(GuardBits)
        b == Aligned(y[2], x[3] - y[3])
        c == CompareBits(a, b)
    IN  IF x[1] = y[1] THEN DoubleOfBits(x[1], AddBits(a, b), e)
        ELSE IF c = 0 THEN DoubleZero
        ELSE IF c > 0 THEN DoubleOfBits(x[1], SubBits(a, b), e)
        ELSE DoubleOfBits(y[1], SubBits(b, a), e)

\* x + y in double arithmetic.
DoubleAdd(x, y) ==
    IF x[1] = 0 THEN y
    ELSE IF y[1] = 0 THEN x
    ELSE IF x[3] >= y[3] THEN DoubleAddOrdered(x, y)
    ELSE DoubleAddOrdered(y, x)

DoubleSub(x, y) == DoubleAdd(x, DoubleNeg(y))

\* x / n in double arithmetic, n a positive integer.
DoubleDivInt(x, n) ==
    IF x[1] = 0 THEN DoubleZero
    ELSE Signed(x[1], DoubleDivPositive(Magnitude(x), n))

\* The double of an integer of either sign.
DoubleOfInteger(k) ==
    IF k = 0 THEN DoubleZero ELSE Signed(Sign(k), DoubleOfInt(Abs(k)))

\* x * n in double arithmetic, n a natural number.
DoubleTimesInt(x, n) ==
    IF x[1] = 0 \/ n = 0 THEN DoubleZero
    ELSE Signed(x[1], DoubleMulInt(Magnitude(x), n))

\* x * 0.25: a power of two only moves the exponent.
DoubleTimesQuarter(x) ==
    IF x[1] = 0 THEN DoubleZero ELSE <<x[1], x[2], x[3] - 2>>

\* |x| <= |y| for two doubles.
DoubleAbsLe(x, y) ==
    \/ x[1] = 0
    \/ /\ y[1] # 0
       /\ \/ x[3] < y[3]
          \/ x[3] = y[3] /\ CompareBits(x[2], y[2]) <= 0

(***************************************************************************)
(* financial.py.  numpy_financial's pmt, pv and fv with payments at the    *)
(* end of a period (when = 0, its default).  The source calls them with a  *)
(* rate other than 0 only.                                                 *)
(***************************************************************************)
\* fact = where(rate == 0, nper, (1 + rate * when) * (temp - 1) / rate): nper
\* at a rate of 0, and nan for a rate that is an infinity, when rate * when
\* is inf * 0.
npf_fact(rate, nper) ==
    IF rate = Zero THEN Q(nper)
    ELSE IF ~IsFinite(rate) THEN NaN
    ELSE RDiv(RSub(RPow(RAdd(One, rate), nper), One), rate)

\* -(fv + pv * temp) / fact with fv = 0, taken as -pv * (temp / fact).  fact
\* is a zero when temp is 1: without periods at a rate of 0 it is nper, +0.0;
\* at another rate temp - 1 is +0.0 and fact has the sign of 1 / rate.  The
\* quotient is then an infinity of the sign of -pv / fact for every pv but 0
\* and nan, for which it is nan.
npf_pmt(rate, nper, pv) ==
    LET temp == RPow(RAdd(One, rate), nper)
        fact == npf_fact(rate, nper)
        sign == IF rate = Zero THEN 1 ELSE Sign(rate[1])
    IN  IF fact = Zero
        THEN <<-Sign(pv[1]) * sign, 0>>
        ELSE RNeg(RMul(pv, RDiv(temp, fact)))

npf_pv(rate, nper, pmt) ==
    RNeg(RMul(pmt, RDiv(npf_fact(rate, nper), RPow(RAdd(One, rate), nper))))

npf_fv(rate, nper, pmt, pv) ==
    RNeg(RAdd(RMul(pv, RPow(RAdd(One, rate), nper)), RMul(pmt, npf_fact(rate, nper))))

(***************************************************************************)
(* numpy_financial's rate with no payments (pmt 0), as the source calls    *)
(* it.  The library looks for the rate r with fv + pv (1 + r)^nper = 0 by  *)
(* Newton's iteration from r = 0.1 in doubles, stops at the first step     *)
(* shorter than 1e-6 and gives nan when 100 steps have not brought one.    *)
(* What it returns is then nan or an iterate within a step of a root, and  *)
(* the model gives the root for it.  Which of them it returns is settled   *)
(* here only where the last bits of the doubles do not decide it:          *)
(*   - for a ratio fv / -pv >= 0 over 2 periods or more the iterates stay  *)
(*     above 0 and come down on the root; the steps are followed in reals  *)
(*     of ApproxBits significant bits, <<m, e>> for m * 2^e, which count   *)
(*     the passes of the loop to within one;                               *)
(*   - for a ratio below 0 the iterates pass 1 + r = 0, where the          *)
(*     derivative vanishes and the next iterate is thrown as far as the    *)
(*     last bits say; both nan and the root are outcomes.                  *)
(***************************************************************************)
ApproxBits == 15

\* F(v), with v evaluated once however often F uses it.
Once(v, F(_)) == CHOOSE r \in {F(w) : w \in {v}} : TRUE
RateMaxIter == 100
ApproxTop == Pow2(ApproxBits)
PowersOfTwo == [k \in 0..30 |-> Pow2(k)]

\* The k of lo..hi with 2^(k-1) <= a < 2^k, by bisection.
RECURSIVE BitLengthIn(_, _, _)
BitLengthIn(a, lo, hi) ==
    IF lo = hi THEN lo
    ELSE LET mid == (lo + hi) \div 2
         IN  IF a < PowersOfTwo[mid] THEN BitLengthIn(a, lo, mid)
             ELSE BitLengthIn(a, mid + 1, hi)

\* The number of bits of a, for 0 < a < 2^31.
BitLength(a) == BitLengthIn(a, 1, 31)

\* m * 2^e rounded to ApproxBits bits.
Round(m, e, k) ==
    IF k <= 0 THEN <<m * PowersOfTwo[-k], e + k>>
    ELSE <<Sign(m) * ((Abs(m) + PowersOfTwo[k - 1]) \div PowersOfTwo[k]), e + k>>

Approx(m, e) ==
    IF m = 0 THEN <<0, 0>>
    ELSE Once(BitLength(Abs(m)) - ApproxBits, LAMBDA k : Round(m, e, k))

ApproxOfInt(k) == Approx(k, 0)
ApproxNeg(a) == <<-a[1], a[2]>>
ApproxAbs(a) == <<Abs(a[1]), a[2]>>
ApproxMul(a, b) == Approx(a[1] * b[1], a[2] + b[2])

\* a / b for b # 0.
ApproxDiv(a, b) ==
    Approx(Sign(a[1]) * Sign(b[1]) * ((Abs(a[1]) * ApproxTop) \div Abs(b[1])),
           a[2] - b[2] - ApproxBits)

\* a + b for a of the larger exponent.
ApproxAddOrdered(a, b) ==
    LET shift == a[2] - b[2]
        up == Min(shift, ApproxBits)
        down == shift - up
    IN  IF shift > 2 * ApproxBits THEN a
        ELSE Approx(a[1] * PowersOfTwo[up] + Sign(b[1]) * (Abs(b[1]) \div PowersOfTwo[down]),
                    b[2] + down)

ApproxAdd(a, b) ==
    IF a[1] = 0 THEN b
    ELSE IF b[1] = 0 THEN a
    ELSE IF a[2] < b[2] THEN ApproxAddOrdered(b, a)
    ELSE ApproxAddOrdered(a, b)

ApproxOfFraction(q) == ApproxDiv(ApproxOfInt(q[1]), ApproxOfInt(q[2]))

\* |a| < |b|
ApproxBelow(a, b) == ApproxAdd(ApproxAbs(a), ApproxNeg(ApproxAbs(b)))[1] < 0

\* The exponent of the power of 2 above |a|, for a # 0.
ApproxExponent(a) ==
    a[2] + (IF Abs(a[1]) = ApproxTop THEN ApproxBits + 1 ELSE ApproxBits)

\* a is within the range of a double; a is 0 or below the least double.
ApproxFinite(a) == a[1] = 0 \/ ApproxExponent(a) <= 1024
ApproxTiny(a) == a[1] = 0 \/ ApproxExponent(a) <= -1074

\* u^n for n >= 0 by squaring, None when it leaves the range of a double.
Finite(r) == IF ApproxFinite(r) THEN Some(r) ELSE None

TimesSquare(h, u, odd) ==
    IF h = None THEN None
    ELSE Once(ApproxMul(Get(h), Get(h)),
              LAMBDA sq : IF odd THEN Once(ApproxMul(sq, u), Finite) ELSE Finite(sq))

RECURSIVE ApproxPower(_, _)
ApproxPower(u, n) ==
    IF n = 0 THEN Some(ApproxOfInt(1))
    ELSE Once(ApproxPower(u, n \div 2), LAMBDA h : TimesSquare(h, u, n % 2 = 1))

RateTolerance == ApproxOfFraction(Norm(1, 1000000))

\* The loop's state after a step, the passes made counted: "close" when the
\* step is below the tolerance, "run" otherwise.
AfterStep(st, u, step, quadratic) ==
    [u         |-> u,
     step      |-> step,
     quadratic |-> quadratic,
     passes    |-> st.passes + 1,
     status    |-> IF ApproxBelow(step, RateTolerance) THEN "close" ELSE "run"]

Failed(st) == [st EXCEPT !.status = "fail"]

\* The iterate after a step that is a number.  Once a step is small against
\* u / (8 |n - 1|) the steps after it are taken from it (QuadraticStep).
NewtonMove(st, n, step) ==
    Once(ApproxAdd(st.u, ApproxNeg(step)),
         LAMBDA u :
             IF ~ApproxFinite(u) THEN Failed(st)
             ELSE AfterStep(st, u, step,
                      u[1] # 0 /\ ~ApproxBelow(u, ApproxMul(ApproxOfInt(8 * Abs(n - 1)), step))))

\* The step g / g' for g = fv + pv u^n and g' = n pv u^(n-1), given the two
\* powers.  A step that is no finite number leaves nan in the iterate.
NewtonQuotient(st, n, g, gp) ==
    IF ApproxTiny(gp) \/ ~ApproxFinite(g) THEN Failed(st)
    ELSE Once(ApproxDiv(g, gp), LAMBDA step : NewtonMove(st, n, step))

NewtonStep(st, n, x, y, t1, t2) ==
    IF t1 = None \/ t2 = None THEN Failed(st)
    ELSE Once(ApproxAdd(y, ApproxMul(Get(t1), x)),
              LAMBDA g : Once(ApproxMul(ApproxOfInt(n), ApproxMul(Get(t2), x)),
                              LAMBDA gp : NewtonQuotient(st, n, g, gp)))

\* Near the root each step is |n - 1| step^2 / (2 u) of the one before, the
\* iterate staying where it is to ApproxBits bits.
QuadraticStep(st, n) ==
    Once(ApproxAbs(ApproxDiv(ApproxMul(ApproxOfInt(Abs(n - 1)), ApproxMul(st.step, st.step)),
                             ApproxMul(ApproxOfInt(2), st.u))),
         LAMBDA step : AfterStep(st, st.u, step, TRUE))

\* One pass of the library's loop from the iterate u = 1 + r, for x = pv,
\* y = fv and n >= 2 periods.
RateStep(st, n, x, y) ==
    IF st.status # "run" THEN st
    ELSE IF st.quadratic THEN QuadraticStep(st, n)
    ELSE Once(ApproxPower(st.u, n),
              LAMBDA t1 : Once(ApproxPower(st.u, n - 1),
                               LAMBDA t2 : NewtonStep(st, n, x, y, t1, t2)))

\* k >= 1 passes of the loop, or fewer when it ends before.
RECURSIVE RateSteps(_, _, _, _, _)
RateSteps(st, k, n, x, y) ==
    IF k = 1 THEN RateStep(st, n, x, y)
    ELSE Once(RateSteps(st, k \div 2, n, x, y),
              LAMBDA half : IF half.status # "run" THEN half
                            ELSE RateSteps(half, k - k \div 2, n, x, y))

\* The loop's state at the guess 0.1.
RateStart ==
    [u |-> ApproxOfFraction(Norm(11, 10)), step |-> <<0, 0>>,
     quadratic |-> FALSE, passes |-> 0, status |-> "run"]

\* The iterates stay positive and fall or rise steadily to the root: n >= 2
\* periods and a ratio fv / -pv above 0.
RateRegular(n, x, y) == n >= 2 /\ x # Zero /\ RGt(RDiv(y, RNeg(x)), Zero)

\* The state the loop is left in, followed for two passes more than the
\* library makes: "close" when it ends below the tolerance, "run" or "fail"
\* when it does not, and "open" where the doubles' last bits decide which:
\* outside the regular case, and when it ends within two passes of maxiter.
RateLoop(n, x, y) ==
    IF ~RateRegular(n, x, y) THEN [RateStart EXCEPT !.status = "open"]
    ELSE Once(Once(ApproxOfFraction(x),
                   LAMBDA ax : Once(ApproxOfFraction(y),
                                    LAMBDA ay : RateSteps(RateStart, RateMaxIter + 2,
                                                          n, ax, ay))),
              LAMBDA end : IF end.status = "close" /\ end.passes > RateMaxIter - 2
                           THEN [end EXCEPT !.status = "open"]
                           ELSE end)

\* r^n <= k for integers r >= 0 and k >= 0, by repeated floor division.
RECURSIVE PowLe(_, _, _)
PowLe(r, n, k) ==
    IF n = 0 \/ r = 1 THEN 1 <= k
    ELSE IF r = 0 THEN TRUE
    ELSE IF k = 0 THEN FALSE
    ELSE PowLe(r, n - 1, k \div r)

\* r^n = k for integers r >= 0 and k >= 0, by repeated exact division.
RECURSIVE PowEq(_, _, _)
PowEq(r, n, k) ==
    IF n = 0 \/ r = 1 THEN k = 1
    ELSE IF r = 0 THEN k = 0
    ELSE k % r = 0 /\ PowEq(r, n - 1, k \div r)

\* The largest r of lo..hi with r^n <= k, by bisection.
RECURSIVE IRootIn(_, _, _, _)
IRootIn(k, n, lo, hi) ==
    IF lo = hi THEN lo
    ELSE LET mid == lo + (hi - lo + 1) \div 2
         IN  IF PowLe(mid, n, k) THEN IRootIn(k, n, mid, hi)
             ELSE IRootIn(k, n, lo, mid - 1)

\* The integer part of the n-th root of k >= 0.
IRoot(k, n) == IRootIn(k, n, 0, k)

IsPower(k, n) == PowEq(IRoot(k, n), n, k)

\* A return that is not a fraction: m * x^(1/n) + c, for fractions m # 0 and
\* c and a fraction x > 0 that is no n-th power of a fraction, kept as the
\* seven integers <<m, c, x, n>>.  It is finite and not nan.
Surd(m, x, n, c) == <<m[1], m[2], c[1], c[2], x[1], x[2], n>>
IsSurd(a) == Len(a) = 7
SurdFactor(a) == <<a[1], a[2]>>
SurdOffset(a) == <<a[3], a[4]>>
SurdRadicand(a) == <<a[5], a[6]>>
SurdDegree(a) == a[7]

\* The sign of m * x^(1/n) + c: x^(1/n) against t = -c / m.
SurdSign(a) ==
    LET t == RNeg(RDiv(SurdOffset(a), SurdFactor(a)))
        above == RLt(t, Zero) \/ RGt(SurdRadicand(a), RPow(t, SurdDegree(a)))
    IN  IF above THEN Sign(a[1]) ELSE -Sign(a[1])

\* a * q for a return a and a fraction, infinity or nan q.
ReturnTimes(a, q) ==
    IF ~IsSurd(a) THEN RMul(a, q)
    ELSE IF IsNaN(q) THEN NaN
    ELSE IF ~IsFinite(q) THEN <<SurdSign(a) * q[1], 0>>
    ELSE IF q = Zero THEN Zero
    ELSE Surd(RMul(SurdFactor(a), q), SurdRadicand(a), SurdDegree(a),
              RMul(SurdOffset(a), q))

\* a + q for a return a and a fraction, infinity or nan q.
ReturnPlus(a, q) ==
    IF ~IsSurd(a) THEN RAdd(a, q)
    ELSE IF ~IsFinite(q) THEN q
    ELSE Surd(SurdFactor(a), SurdRadicand(a), SurdDegree(a), RAdd(SurdOffset(a), q))

\* side * x^(1/n) - 1 for x > 0 and n >= 2.
RootLessOne(side, x, n) ==
    IF IsPower(x[1], n) /\ IsPower(x[2], n)
    THEN RSub(RMul(Q(side), Norm(IRoot(x[1], n), IRoot(x[2], n))), One)
    ELSE Surd(Q(side), x, n, RNeg(One))

\* The rates r with (1 + r)^nper = ratio, for nper # 0.
RealRoots(nper, ratio) ==
    LET n == Abs(nper)
        radicand == IF nper > 0 THEN RMul(Q(Sign(ratio[1])), ratio)
                    ELSE RMul(Q(Sign(ratio[1])), RInv(ratio))
    IN  IF ratio = Zero THEN (IF nper > 0 THEN {RNeg(One)} ELSE {})
        ELSE IF RLt(ratio, Zero)
        THEN (IF n % 2 = 1 THEN {RootLessOne(-1, radicand, n)} ELSE {})
        ELSE {RootLessOne(1, radicand, n)}
                 \cup (IF n % 2 = 0 THEN {RootLessOne(-1, radicand, n)} ELSE {})

(***************************************************************************)
(* A ratio of 0 (fv = 0) over n >= 2 periods.  The root is 1 + r = 0,      *)
(* where g = pv u^n and g' = n pv u^(n-1) make every step u / n: the       *)
(* iterates u = 1 + r shrink by (n - 1) / n a pass, and the loop ends with *)
(* the first step below the tolerance, n - 1 such steps short of the root. *)
(* The passes are followed in doubles from u = 1.1.                        *)
(***************************************************************************)
ZeroRatioStart == Signed(1, DoubleDiv(11, 10))

\* tol = 1e-6, the double: 1 / 15625 rounded, over 2^6.
RateToleranceDouble ==
    LET q == DoubleDiv(1, 15625)
    IN  <<1, q[1], q[2] - 6>>

\* A step above 0 against the tolerance: -1 below it, 1 not below it, and 0
\* within 2^-30 of it, where the last bits of the library's doubles decide.
StepAgainstTolerance(step) ==
    LET tol == RateToleranceDouble
    IN  IF step[3] > tol[3] + 1 THEN 1
        ELSE IF step[3] < tol[3] - 1 THEN -1
        ELSE Once(DoubleSub(step, tol),
                  LAMBDA off : IF DoubleAbsLe(off, <<1, tol[2], tol[3] - 30>>) THEN 0
                               ELSE off[1])

\* The rate r = u - 1 of an iterate 0 < u < 2, as a fraction: to 30 binary
\* places, the most a denominator within TLC's integers gives.
RateOfIterate(u) ==
    LET kept == SignificandBits + u[3] + 30
        units == IF kept < 0 THEN 0
                 ELSE BitsValue(SubSeq(u[2], 1, kept))
                      + (IF kept < SignificandBits THEN u[2][kept + 1] ELSE 0)
    IN  Norm(units - PowersOfTwo[30], PowersOfTwo[30])

\* One pass of the loop from the iterate st.u.  The rate after a pass whose
\* step is below the tolerance is returned, and the loop is through; where
\* the step is within 2^-30 of the tolerance the loop may also go on.
ZeroRatioStep(st, n) ==
    IF st.through THEN st
    ELSE Once(DoubleDivInt(st.u, n),
              LAMBDA step :
                  Once(DoubleSub(st.u, step),
                       LAMBDA next :
                           Once(StepAgainstTolerance(step),
                                LAMBDA c :
                                    [u        |-> next,
                                     through  |-> c < 0,
                                     returned |-> IF c <= 0
                                                  THEN st.returned \cup {RateOfIterate(next)}
                                                  ELSE st.returned])))

\* k >= 1 passes of the loop, or fewer when it is through before.
RECURSIVE ZeroRatioSteps(_, _, _)
ZeroRatioSteps(st, k, n) ==
    IF k = 1 THEN ZeroRatioStep(st, n)
    ELSE Once(ZeroRatioSteps(st, k \div 2, n),
              LAMBDA half : IF half.through THEN half
                            ELSE ZeroRatioSteps(half, k - k \div 2, n))

\* The values the loop can return: the rates returned within RateMaxIter
\* passes, and nan when the loop is not through by then.
ZeroRatioLoop(n) ==
    Once(ZeroRatioSteps([u |-> ZeroRatioStart, through |-> FALSE, returned |-> {}],
                        RateMaxIter, n),
         LAMBDA end : IF end.through THEN end.returned ELSE end.returned \cup {NaN})

\* The loop's values for the few periods over which it ends in time, found
\* once.
ZeroRatioRates == [n \in 2..9 |-> ZeroRatioLoop(n)]

\* What npf.rate returns once its loop is left in the state end.  For a
\* ratio of 0 over two periods or more it is the iterate the loop ends on.
\* Otherwise it is the root the iterates approach when the loop ends below
\* the tolerance (the iterate returned is within 1e-9 of it), nan when it
\* does not, and either where that is open (in the regular case the root is
\* the positive one; outside it the iterates can end near any real root).
RateOutcomes(end, nper, ratio) ==
    IF ratio = Zero /\ nper >= 2
    THEN (IF nper \in DOMAIN ZeroRatioRates THEN ZeroRatioRates[nper]
          ELSE ZeroRatioLoop(nper))
    ELSE IF end.status = "close" THEN {RootLessOne(1, ratio, nper)}
    ELSE IF end.status # "open" THEN {NaN}
    ELSE IF nper >= 2 /\ RGt(ratio, Zero) THEN {NaN, RootLessOne(1, ratio, nper)}
    ELSE {NaN} \cup RealRoots(nper, ratio)

\* npf.rate(nper, 0, pv, fv), the values it can return.  Without periods or
\* without a present value, and for amounts that are no finite numbers, the
\* step is no number and the result nan.  Over one period the first pass
\* lands on fv / -pv - 1 and the second step is 0; but when the first pass
\* lands on the double 0.0 itself, which a ratio of 1 allows and the
\* rounding of that pass decides, the second divides 0.0 by it and leaves
\* nan.
npf_rate(nper, pv, fv) ==
    IF nper = 0 \/ ~IsFinite(pv) \/ ~IsFinite(fv) \/ pv = Zero THEN {NaN}
    ELSE IF nper = 1
    THEN (IF RDiv(fv, RNeg(pv)) = One THEN {NaN, Zero}
          ELSE {RSub(RDiv(fv, RNeg(pv)), One)})
    ELSE Once(RateLoop(nper, pv, fv),
              LAMBDA end : RateOutcomes(end, nper, RDiv(fv, RNeg(pv))))

Twelve == Q(12)

\* The rate looked at before the principal.
calculate_pmt_RateFirst(rate, nper, pv) ==
    IF rate = Zero THEN RDiv(pv, Q(nper))
    ELSE IF pv = Zero THEN Zero
    ELSE RNeg(npf_pmt(RDiv(rate, Twelve), nper, pv))

calculate_pmt(rate, nper, pv) ==
    IF pv = Zero THEN Zero
    ELSE IF rate = Zero THEN RDiv(pv, Q(nper))
    ELSE RNeg(npf_pmt(RDiv(rate, Twelve), nper, pv))

\* The double calculate_pmt returns from its zero-rate branch, pv / nper,
\* for a positive integer pv.
calculate_pmt_zero_rate_double(nper, pv) == DoubleDiv(pv[1], nper)

calculate_fv(rate, nper, pmt, pv) ==
    IF rate = Zero THEN RNeg(RAdd(pv, RMul(pmt, Q(nper))))
    ELSE npf_fv(rate, nper, pmt, pv)

calculate_pv(rate, nper, pmt) ==
    IF rate = Zero THEN RMul(RNeg(pmt), Q(nper))
    ELSE npf_pv(rate, nper, pmt)

\* The principal not taken off the future value.
calculate_compound_growth_ReturnsValue(principal, rate, years) ==
    IF years <= 0 \/ rate = Zero THEN Zero
    ELSE npf_fv(rate, years, Zero, RNeg(principal))

calculate_compound_growth(principal, rate, years) ==
    IF years <= 0 \/ rate = Zero THEN Zero
    ELSE RSub(npf_fv(rate, years, Zero, RNeg(principal)), principal)

calculate_compound_value(principal, rate, years) ==
    IF years <= 0 THEN principal
    ELSE IF rate = Zero THEN principal
    ELSE npf_fv(rate, years, Zero, RNeg(principal))

(***************************************************************************)
(* tax_config.py.  A bracket is [min_value, max_value, rate]; max_value    *)
(* Inf stands for None (no upper limit).                                   *)
(***************************************************************************)
RMin(a, b) == IF RLt(b, a) THEN b ELSE a

TaxBracket(min_value, max_value, rate) ==
    [min_value |-> min_value, max_value |-> max_value, rate |-> rate]

FIRST_HOUSE_BRACKETS ==
    <<TaxBracket(Zero, Q(1805000), Zero),
      TaxBracket(Q(1805000), Q(2085000), Norm(35, 1000)),
      TaxBracket(Q(2085000), Q(5000000), Norm(5, 100)),
      TaxBracket(Q(5000000), Q(17000000), Norm(75, 1000)),
      TaxBracket(Q(17000000), Inf, Norm(10, 100))>>

ADDITIONAL_HOUSE_BRACKETS ==
    <<TaxBracket(Zero, Q(1805000), Norm(8, 100)),
      TaxBracket(Q(1805000), Q(2085000), Norm(8, 100)),
      TaxBracket(Q(2085000), Q(5000000), Norm(8, 100)),
      TaxBracket(Q(5000000), Q(17000000), Norm(8, 100)),
      TaxBracket(Q(17000000), Inf, Norm(10, 100))>>

\* The start of the bracket not taken off the amount taxed in it.
RECURSIVE PurchaseTaxLoop_NoBracketStart(_, _, _, _)
PurchaseTaxLoop_NoBracketStart(brackets, i, property_value, total_tax) ==
    IF i > Len(brackets) THEN total_tax
    ELSE IF RLe(property_value, brackets[i].min_value) THEN total_tax
    ELSE LET amount_in_bracket == RMin(property_value, brackets[i].max_value)
         IN  PurchaseTaxLoop_NoBracketStart(brackets, i + 1, property_value,
                 IF RGt(amount_in_bracket, Zero)
                 THEN RAdd(total_tax, RMul(amount_in_bracket, brackets[i].rate))
                 ELSE total_tax)

\* Every bracket that is reached and has a top taxed to its top.
RECURSIVE PurchaseTaxLoop_FullBracket(_, _, _, _)
PurchaseTaxLoop_FullBracket(brackets, i, property_value, total_tax) ==
    IF i > Len(brackets) THEN total_tax
    ELSE IF RLe(property_value, brackets[i].min_value) THEN total_tax
    ELSE LET bracket_end == IF IsFinite(brackets[i].max_value)
                            THEN brackets[i].max_value
                            ELSE property_value
             amount_in_bracket == RSub(bracket_end, brackets[i].min_value)
         IN  PurchaseTaxLoop_FullBracket(brackets, i + 1, property_value,
                 IF RGt(amount_in_bracket, Zero)
                 THEN RAdd(total_tax, RMul(amount_in_bracket, brackets[i].rate))
                 ELSE total_tax)

\* The loop of calculate_purchase_tax from bracket i on, total_tax so far.
RECURSIVE PurchaseTaxLoop(_, _, _, _)
PurchaseTaxLoop(brackets, i, property_value, total_tax) ==
    IF i > Len(brackets) THEN total_tax
    ELSE IF RLe(property_value, brackets[i].min_value) THEN total_tax
    ELSE LET bracket_end == RMin(property_value, brackets[i].max_value)
             amount_in_bracket == RSub(bracket_end, brackets[i].min_value)
         IN  PurchaseTaxLoop(brackets, i + 1, property_value,
                 IF RGt(amount_in_bracket, Zero)
                 THEN RAdd(total_tax, RMul(amount_in_bracket, brackets[i].rate))
                 ELSE total_tax)

\* The first-house schedule used whatever the flag.
calculate_purchase_tax_IgnoresFlag(property_value, is_first_house) ==
    IF RLe(property_value, Zero) THEN Zero
    ELSE PurchaseTaxLoop(FIRST_HOUSE_BRACKETS, 1, property_value, Zero)

calculate_purchase_tax(property_value, is_first_house) ==
    IF RLe(property_value, Zero) THEN Zero
    ELSE PurchaseTaxLoop(IF is_first_house THEN FIRST_HOUSE_BRACKETS
                                           ELSE ADDITIONAL_HOUSE_BRACKETS,
                         1, property_value, Zero)

CAPITAL_GAINS_TAX_RATE == Norm(25, 100)

\* A loss taxed like a gain.
calculate_capital_gains_tax_TaxesLosses(sale_price, purchase_price, purchase_tax_paid, improvement_costs) ==
    RMul(RSub(RSub(RSub(sale_price, purchase_price), purchase_tax_paid), improvement_costs),
         CAPITAL_GAINS_TAX_RATE)

calculate_capital_gains_tax(sale_price, purchase_price, purchase_tax_paid, improvement_costs) ==
    LET capital_gain ==
            RSub(RSub(RSub(sale_price, purchase_price), purchase_tax_paid), improvement_costs)
    IN  IF RLe(capital_gain, Zero) THEN Zero
        ELSE RMul(capital_gain, CAPITAL_GAINS_TAX_RATE)

(***************************************************************************)
(* models.py: ScenarioInputs, InvestmentRestrictions, ScenarioResult.      *)
(***************************************************************************)
UrbanRenewalCap == 400000

\* The cap left out.
CapUrbanRenewal_NoCap(value) == value

\* ScenarioInputs.__post_init__, first statement: the cap on the field.
CapUrbanRenewal(value) == Min(value, UrbanRenewalCap)

NoError == "none"

\* The checks with the one on improvement_costs left out.
PostInitError_NoImprovementCheck(a) ==
    IF a.property_price <= 0 THEN "property_price must be positive"
    ELSE IF a.down_payment < 0 THEN "down_payment cannot be negative"
    ELSE IF a.available_cash < 0 THEN "available_cash cannot be negative"
    ELSE IF a.mortgage_term_years <= 0 THEN "mortgage_term_years must be positive"
    ELSE IF a.years_until_sale <= 0 THEN "years_until_sale must be positive"
    ELSE IF a.monthly_income <= 0 THEN "monthly_income must be positive"
    ELSE NoError

\* The check of down_payment made before the one of property_price.
PostInitError_DownPaymentFirst(a) ==
    IF a.down_payment < 0 THEN "down_payment cannot be negative"
    ELSE IF a.property_price <= 0 THEN "property_price must be positive"
    ELSE IF a.available_cash < 0 THEN "available_cash cannot be negative"
    ELSE IF a.mortgage_term_years <= 0 THEN "mortgage_term_years must be positive"
    ELSE IF a.years_until_sale <= 0 THEN "years_until_sale must be positive"
    ELSE IF a.monthly_income <= 0 THEN "monthly_income must be positive"
    ELSE IF a.improvement_costs < 0 THEN "improvement_costs cannot be negative"
    ELSE NoError

\* ScenarioInputs.__post_init__, the checks: the message of the ValueError
\* raised for the fields a, or NoError.
PostInitError(a) ==
    IF a.property_price <= 0 THEN "property_price must be positive"
    ELSE IF a.down_payment < 0 THEN "down_payment cannot be negative"
    ELSE IF a.available_cash < 0 THEN "available_cash cannot be negative"
    ELSE IF a.mortgage_term_years <= 0 THEN "mortgage_term_years must be positive"
    ELSE IF a.years_until_sale <= 0 THEN "years_until_sale must be positive"
    ELSE IF a.monthly_income <= 0 THEN "monthly_income must be positive"
    ELSE IF a.improvement_costs < 0 THEN "improvement_costs cannot be negative"
    ELSE NoError

\* The fields of the object __post_init__ leaves behind.
PostInitFields(a) == [a EXCEPT !.urban_renewal_value = CapUrbanRenewal(@)]

calculate_monthly_rent(inputs, rental_yield) ==
    RDiv(RMul(Q(inputs.property_price), rental_yield), Twelve)

calculate_mortgage_amount(inputs) == inputs.property_price - inputs.down_payment

DefaultRestrictions ==
    [max_mortgage_to_income_ratio |-> Norm(3, 10),
     min_down_payment_percentage  |-> Zero,
     max_loan_to_value            |-> Norm(3, 4),
     max_mortgage_percentage      |-> Norm(3, 4),
     max_urban_renewal_value      |-> Q(400000),
     require_positive_cash_flow   |-> FALSE]

\* The fields ScenarioResult's generated __init__ requires: those declared
\* without a default.
ScenarioResultRequired ==
    {"inputs", "assumptions", "loan_metrics", "cash_flow_metrics",
     "appreciation_metrics", "early_repayment_metrics", "portfolio_metrics",
     "tax_metrics", "total_value_at_sale", "total_profit", "annual_return"}

ScenarioResultOptional == {"is_valid", "validation_errors"}

\* Calling the dataclass constructor with the keyword set kw.
ScenarioResultInit(kw) ==
    IF ScenarioResultRequired \subseteq kw /\ kw \subseteq ScenarioResultRequired \cup ScenarioResultOptional
    THEN NoError
    ELSE "TypeError"

(***************************************************************************)
(* calculator.py: ScenarioCalculator.  self is the record of the object's  *)
(* attributes: inputs, assumptions, restrictions, monthly_rent.            *)
(***************************************************************************)
ScenarioCalculatorInit(inputs, assumptions, restrictions) ==
    [inputs       |-> inputs,
     assumptions  |-> assumptions,
     restrictions |-> IF restrictions = None THEN DefaultRestrictions ELSE Get(restrictions),
     monthly_rent |-> calculate_monthly_rent(inputs, assumptions.rental_yield)]

\* The methods the class body defines.
ScenarioCalculatorMethods ==
    {"calculate_loan_metrics", "calculate_cash_flow", "calculate_appreciation",
     "calculate_early_repayment", "calculate_portfolio", "validate", "calculate"}

\* Looking a method up on an instance.
GetMethod(name) == IF name \in ScenarioCalculatorMethods THEN NoError ELSE "AttributeError"

\* No sentinel: a zero equity ratio leaves the multiplier at 0.
LeverageMultiplier_NoSentinel(equity_ratio) ==
    IF RGt(equity_ratio, Zero) THEN RDiv(One, equity_ratio) ELSE Zero

\* leverage_multiplier = 1 / equity_ratio if equity_ratio > 0 else float('inf')
LeverageMultiplier(equity_ratio) ==
    IF RGt(equity_ratio, Zero) THEN RDiv(One, equity_ratio) ELSE Inf

\* if loan_amount <= 0: the full cash purchase.
NoLoan(loan_amount) == loan_amount <= 0

\* The two ratios of a cash purchase exchanged.
CashPurchaseMetrics_RatiosExchanged ==
    [loan_amount              |-> Zero,
     leverage_ratio           |-> One,
     equity_ratio             |-> Zero,
     leverage_multiplier      |-> One,
     monthly_payment          |-> Zero,
     total_payments           |-> Zero,
     total_interest           |-> Zero,
     avg_monthly_interest     |-> Zero,
     mortgage_to_income_ratio |-> Zero]

\* The LoanMetrics returned when there is no loan.
CashPurchaseMetrics ==
    [loan_amount              |-> Zero,
     leverage_ratio           |-> Zero,
     equity_ratio             |-> One,
     leverage_multiplier      |-> One,
     monthly_payment          |-> Zero,
     total_payments           |-> Zero,
     total_interest           |-> Zero,
     avg_monthly_interest     |-> Zero,
     mortgage_to_income_ratio |-> Zero]

calculate_loan_metrics(self) ==
    LET loan_amount == calculate_mortgage_amount(self.inputs)
        leverage_ratio == RDiv(Q(loan_amount), Q(self.inputs.property_price))
        equity_ratio == RSub(One, leverage_ratio)
        num_payments == self.inputs.mortgage_term_years * 12
        monthly_payment ==
            calculate_pmt(self.assumptions.mortgage_rate, num_payments, Q(loan_amount))
        total_payments == RMul(monthly_payment, Q(num_payments))
        total_interest == RSub(total_payments, Q(loan_amount))
    IN  IF NoLoan(loan_amount)
        THEN CashPurchaseMetrics
        ELSE [loan_amount              |-> Q(loan_amount),
              leverage_ratio           |-> leverage_ratio,
              equity_ratio             |-> equity_ratio,
              leverage_multiplier      |-> LeverageMultiplier(equity_ratio),
              monthly_payment          |-> monthly_payment,
              total_payments           |-> total_payments,
              total_interest           |-> total_interest,
              avg_monthly_interest     |->
                  IF num_payments > 0 THEN RDiv(total_interest, Q(num_payments)) ELSE Zero,
              mortgage_to_income_ratio |->
                  IF self.inputs.monthly_income > 0
                  THEN RDiv(monthly_payment, Q(self.inputs.monthly_income))
                  ELSE Zero]

\* The average principal payment with the sign of the loan.
AvgPrincipalPayment_Positive(loan_amount, mortgage_term_years) ==
    IF RGt(loan_amount, Zero) /\ mortgage_term_years > 0
    THEN RDiv(loan_amount, Q(12 * mortgage_term_years))
    ELSE Zero

\* avg_principal_payment: negative, because it reduces debt.
AvgPrincipalPayment(loan_amount, mortgage_term_years) ==
    IF RGt(loan_amount, Zero) /\ mortgage_term_years > 0
    THEN RDiv(RNeg(loan_amount), Q(12 * mortgage_term_years))
    ELSE Zero

calculate_cash_flow(self, loan_metrics) ==
    LET rental_yield ==
            RDiv(RMul(self.monthly_rent, Twelve), Q(self.inputs.property_price))
        leveraged_rental_yield == RMul(rental_yield, loan_metrics.leverage_multiplier)
    IN  [monthly_rent           |-> self.monthly_rent,
         rental_yield           |-> rental_yield,
         monthly_net_cash_flow  |-> RSub(self.monthly_rent, loan_metrics.monthly_payment),
         monthly_interest_flow  |->
             RSub(self.monthly_rent, loan_metrics.avg_monthly_interest),
         avg_principal_payment  |->
             AvgPrincipalPayment(loan_metrics.loan_amount, self.inputs.mortgage_term_years),
         leveraged_rental_yield |-> leveraged_rental_yield,
         net_leveraged_yield    |->
             IF RGt(loan_metrics.loan_amount, Zero)
             THEN RSub(leveraged_rental_yield, self.assumptions.mortgage_rate)
             ELSE leveraged_rental_yield]

\* The doubles of calculate_loan_metrics' payment fields for a positive
\* integer loan at a mortgage_rate of 0, where calculate_pmt returns
\* loan_amount / num_payments.
calculate_loan_metrics_double(loan_amount, mortgage_term_years) ==
    LET num_payments == mortgage_term_years * 12
        monthly_payment == Signed(1, calculate_pmt_zero_rate_double(num_payments, Q(loan_amount)))
        total_payments == Signed(1, DoubleMulInt(Magnitude(monthly_payment), num_payments))
        total_interest == DoubleSub(total_payments, Signed(1, DoubleOfInt(loan_amount)))
    IN  [monthly_payment      |-> monthly_payment,
         total_payments       |-> total_payments,
         total_interest       |-> total_interest,
         avg_monthly_interest |-> DoubleDivInt(total_interest, num_payments)]

\* The doubles of calculate_cash_flow's two views and of its average
\* principal payment, for those loan metrics and a monthly rent of 0.0
\* (a rental_yield of 0).
calculate_cash_flow_double(loan_amount, mortgage_term_years, loan_metrics) ==
    [monthly_net_cash_flow |-> DoubleSub(DoubleZero, loan_metrics.monthly_payment),
     monthly_interest_flow |-> DoubleSub(DoubleZero, loan_metrics.avg_monthly_interest),
     avg_principal_payment |->
         Signed(-1, DoubleDiv(loan_amount, 12 * mortgage_term_years))]

\* financial.py calculate_annualized_return, the values it can return: 0 for
\* no years and for no return; otherwise npf.rate(years, 0, -1, 1 + total_return).
calculate_annualized_return(total_return, years) ==
    IF years <= 0 THEN {Zero}
    ELSE IF total_return = Zero THEN {Zero}
    ELSE npf_rate(years, RNeg(One), RAdd(One, total_return))

\* The urban renewal value counted twice.
TotalAppreciation_UrbanTwice(urban_renewal_value, property_appreciation, urban_renewal_appreciation) ==
    RAdd(RAdd(RAdd(urban_renewal_value, urban_renewal_value), property_appreciation),
         urban_renewal_appreciation)

\* total_appreciation = urban_renewal_value + property_appreciation
\*                      + urban_renewal_appreciation
TotalAppreciation(urban_renewal_value, property_appreciation, urban_renewal_appreciation) ==
    RAdd(RAdd(urban_renewal_value, property_appreciation), urban_renewal_appreciation)

\* calculate_appreciation, the records it can return: one for each value of
\* calculate_annualized_return.
calculate_appreciation(self, loan_metrics, cash_flow_metrics) ==
    LET years == self.inputs.years_until_sale
        property_appreciation ==
            calculate_compound_growth(Q(self.inputs.property_price),
                                      self.assumptions.appreciation_rate, years)
        urban_renewal_appreciation ==
            calculate_compound_growth(Q(self.inputs.urban_renewal_value),
                                      self.assumptions.appreciation_rate, years)
        total_appreciation ==
            TotalAppreciation(Q(self.inputs.urban_renewal_value), property_appreciation,
                              urban_renewal_appreciation)
        sale_value == RAdd(Q(self.inputs.property_price), total_appreciation)
        total_return_rate == RSub(RDiv(sale_value, Q(self.inputs.property_price)), One)
        leveraged_return(annualized_return) ==
            ReturnTimes(annualized_return, loan_metrics.leverage_multiplier)
        with_rental_yield(annualized_return) ==
            ReturnPlus(leveraged_return(annualized_return),
                       cash_flow_metrics.leveraged_rental_yield)
    IN  {[property_appreciation      |-> property_appreciation,
          urban_renewal_appreciation |-> urban_renewal_appreciation,
          total_appreciation         |-> total_appreciation,
          sale_value                 |-> sale_value,
          total_return_rate          |-> total_return_rate,
          annualized_return          |-> annualized_return,
          leveraged_return           |-> leveraged_return(annualized_return),
          net_annual_return          |->
              IF RGt(loan_metrics.loan_amount, Zero)
              THEN ReturnPlus(with_rental_yield(annualized_return),
                              RNeg(self.assumptions.mortgage_rate))
              ELSE with_rental_yield(annualized_return)] :
         annualized_return \in calculate_annualized_return(total_return_rate, years)}

\* The net gain without the down payment taken off.
NoEarlyRepayment_GrossGain(self, appreciation_metrics) ==
    [remaining_mortgage      |-> Zero,
     early_repayment_penalty |-> Zero,
     total_debt_to_bank      |-> Zero,
     proceeds_minus_debt     |-> appreciation_metrics.sale_value,
     net_gain_property       |-> appreciation_metrics.sale_value]

\* calculate_early_repayment, the branch taken when there is no loan or the
\* sale comes at or after the end of the term.
NoEarlyRepayment(self, appreciation_metrics) ==
    [remaining_mortgage      |-> Zero,
     early_repayment_penalty |-> Zero,
     total_debt_to_bank      |-> Zero,
     proceeds_minus_debt     |-> appreciation_metrics.sale_value,
     net_gain_property       |->
         RSub(appreciation_metrics.sale_value, Q(self.inputs.down_payment))]

\* The penalty credited to the borrower instead of charged.
EarlyRepaymentPenalty_Credited(self, loan_metrics) ==
    LET remaining_months ==
            (self.inputs.mortgage_term_years - self.inputs.years_until_sale) * 12
    IN  RNeg(RMax(Zero,
                  RSub(calculate_pv(RDiv(self.assumptions.mortgage_rate, Twelve),
                                    remaining_months, loan_metrics.monthly_payment),
                       calculate_pv(RDiv(self.assumptions.early_repayment_rate, Twelve),
                                    remaining_months, loan_metrics.monthly_payment))))

\* Both present values taken at the mortgage rate.
EarlyRepaymentPenalty_OneRate(self, loan_metrics) ==
    LET remaining_months ==
            (self.inputs.mortgage_term_years - self.inputs.years_until_sale) * 12
    IN  RMax(Zero,
             RSub(calculate_pv(RDiv(self.assumptions.mortgage_rate, Twelve),
                               remaining_months, loan_metrics.monthly_payment),
                  calculate_pv(RDiv(self.assumptions.mortgage_rate, Twelve),
                               remaining_months, loan_metrics.monthly_payment)))

\* calculate_early_repayment, the early-sale branch: the penalty.
EarlyRepaymentPenalty(self, loan_metrics) ==
    LET remaining_months ==
            (self.inputs.mortgage_term_years - self.inputs.years_until_sale) * 12
        pv_current ==
            calculate_pv(RDiv(self.assumptions.mortgage_rate, Twelve),
                         remaining_months, loan_metrics.monthly_payment)
        pv_new ==
            calculate_pv(RDiv(self.assumptions.early_repayment_rate, Twelve),
                         remaining_months, loan_metrics.monthly_payment)
    IN  RMax(Zero, RSub(pv_current, pv_new))

\* calculate_early_repayment, the early-sale branch.
EarlyRepayment(self, loan_metrics, appreciation_metrics) ==
    LET years_until_sale == self.inputs.years_until_sale
        mortgage_term == self.inputs.mortgage_term_years
        remaining_ratio == RDiv(Q(mortgage_term - years_until_sale), Q(mortgage_term))
        remaining_mortgage == RMul(remaining_ratio, loan_metrics.total_payments)
        early_repayment_penalty == EarlyRepaymentPenalty(self, loan_metrics)
        total_debt_to_bank == RAdd(remaining_mortgage, early_repayment_penalty)
        proceeds_minus_debt == RSub(appreciation_metrics.sale_value, total_debt_to_bank)
    IN  [remaining_mortgage      |-> remaining_mortgage,
         early_repayment_penalty |-> early_repayment_penalty,
         total_debt_to_bank      |-> total_debt_to_bank,
         proceeds_minus_debt     |-> proceeds_minus_debt,
         net_gain_property       |->
             RSub(proceeds_minus_debt, Q(self.inputs.down_payment))]

calculate_early_repayment(self, loan_metrics, appreciation_metrics) ==
    IF RLe(loan_metrics.loan_amount, Zero)
       \/ self.inputs.years_until_sale >= self.inputs.mortgage_term_years
    THEN NoEarlyRepayment(self, appreciation_metrics)
    ELSE EarlyRepayment(self, loan_metrics, appreciation_metrics)

\* The tax charged on losses as well.
CapitalGainsTax_OnLosses(total_gains, capital_gains_tax_rate) ==
    RMul(total_gains, capital_gains_tax_rate)

\* tax = total_gains * capital_gains_tax_rate if total_gains > 0 else 0
CapitalGainsTax(total_gains, capital_gains_tax_rate) ==
    IF RGt(total_gains, Zero) THEN RMul(total_gains, capital_gains_tax_rate) ELSE Zero

\* The down payment not taken off the available cash.
CashInPortfolio_AllCash(available_cash, down_payment) == Q(available_cash)

\* cash_in_portfolio: what was not used for the down payment.
CashInPortfolio(available_cash, down_payment) == Q(available_cash - down_payment)

\* calculate_portfolio's formulas in exact arithmetic; what the float
\* operations make of them is calculate_portfolio_double.
calculate_portfolio(self, cash_flow_metrics) ==
    LET years == self.inputs.years_until_sale
        months == years * 12
        monthly_rate == RDiv(self.assumptions.portfolio_return_rate, Twelve)
        cash_in_portfolio ==
            CashInPortfolio(self.inputs.available_cash, self.inputs.down_payment)
        portfolio_initial_growth ==
            calculate_compound_value(cash_in_portfolio,
                                     self.assumptions.portfolio_return_rate, years)
        monthly_deposits ==
            RAdd(Q(self.inputs.monthly_available), cash_flow_metrics.monthly_net_cash_flow)
        accumulated_deposits ==
            calculate_fv(monthly_rate, months, RNeg(monthly_deposits), Zero)
        total_portfolio_value == RAdd(portfolio_initial_growth, accumulated_deposits)
        deposit_gains == RSub(accumulated_deposits, RMul(monthly_deposits, Q(months)))
        initial_gains == RSub(portfolio_initial_growth, cash_in_portfolio)
        total_gains == RAdd(deposit_gains, initial_gains)
        tax == CapitalGainsTax(total_gains, self.assumptions.capital_gains_tax_rate)
        portfolio_after_tax == RSub(total_portfolio_value, tax)
        total_contributions == RAdd(cash_in_portfolio, RMul(monthly_deposits, Q(months)))
    IN  [cash_in_portfolio        |-> cash_in_portfolio,
         portfolio_initial_growth |-> portfolio_initial_growth,
         monthly_deposits         |-> monthly_deposits,
         accumulated_deposits     |-> accumulated_deposits,
         total_portfolio_value    |-> total_portfolio_value,
         portfolio_after_tax      |-> portfolio_after_tax,
         net_portfolio_profit     |-> RSub(portfolio_after_tax, total_contributions)]

\* tax = total_gains * capital_gains_tax_rate if total_gains > 0 else 0, in
\* doubles at a capital_gains_tax_rate of 0.25.
CapitalGainsTaxDouble(total_gains) ==
    IF total_gains[1] > 0 THEN DoubleTimesQuarter(total_gains) ELSE DoubleZero

\* calculate_portfolio in doubles, each assignment rounded as the float
\* operation it is, for integer inputs, a capital_gains_tax_rate of 0.25 and
\* a portfolio_return_rate that is a whole multiple of 12 (0 or 12 here),
\* held for a year.
\* Then 1 + rate and 1 + monthly_rate are integers and npf.fv's powers temp
\* are integers that doubles hold exactly, so that calculate_compound_value
\* returns -pv * temp - 0.0 = cash_in_portfolio * temp and calculate_fv
\* returns -0.0 - pmt / monthly_rate * (temp - 1) with
\* pmt = -monthly_deposits. cash_flow_metrics are calculate_cash_flow's
\* doubles. The result has the stage's fields and three of its locals.
calculate_portfolio_double(self, cash_flow_metrics) ==
    LET years == self.inputs.years_until_sale
        months == years * 12
        rate == self.assumptions.portfolio_return_rate
        monthly_rate == RDiv(rate, Twelve)
        cash_in_portfolio ==
            DoubleOfInteger(self.inputs.available_cash - self.inputs.down_payment)
        portfolio_initial_growth ==
            IF years <= 0 \/ rate = Zero THEN cash_in_portfolio
            ELSE DoubleTimesInt(cash_in_portfolio, RPow(RAdd(One, rate), years)[1])
        monthly_deposits ==
            DoubleAdd(DoubleOfInteger(self.inputs.monthly_available),
                      cash_flow_metrics.monthly_net_cash_flow)
        accumulated_deposits ==
            IF monthly_rate = Zero THEN DoubleTimesInt(monthly_deposits, months)
            ELSE DoubleTimesInt(DoubleDivInt(monthly_deposits, monthly_rate[1]),
                                RPow(RAdd(One, monthly_rate), months)[1] - 1)
        total_portfolio_value == DoubleAdd(portfolio_initial_growth, accumulated_deposits)
        deposited == DoubleTimesInt(monthly_deposits, months)
        deposit_gains == DoubleSub(accumulated_deposits, deposited)
        initial_gains == DoubleSub(portfolio_initial_growth, cash_in_portfolio)
        total_gains == DoubleAdd(deposit_gains, initial_gains)
        tax == CapitalGainsTaxDouble(total_gains)
        portfolio_after_tax == DoubleSub(total_portfolio_value, tax)
        total_contributions == DoubleAdd(cash_in_portfolio, deposited)
    IN  [cash_in_portfolio        |-> cash_in_portfolio,
         portfolio_initial_growth |-> portfolio_initial_growth,
         monthly_deposits         |-> monthly_deposits,
         accumulated_deposits     |-> accumulated_deposits,
         total_portfolio_value    |-> total_portfolio_value,
         portfolio_after_tax      |-> portfolio_after_tax,
         net_portfolio_profit     |-> DoubleSub(portfolio_after_tax, total_contributions),
         deposited                |-> deposited,
         total_gains              |-> total_gains,
         tax                      |-> tax]

\* validate(): the six checks, each appending its message (named here by
\* its leading words) when it fails; recomputes the two stages it reads.
MsgDownPayment == "Down payment is below minimum"
MsgLoanToValue == "Loan-to-value exceeds maximum"
MsgMortgagePct == "Mortgage of property value exceeds maximum"
MsgMortgageToIncome == "Mortgage payment of income exceeds maximum"
MsgNegativeCashFlow == "Negative cash flow"
MsgUrbanRenewal == "Urban renewal value exceeds maximum"

Append1(errors, failed, msg) == IF failed THEN Append(errors, msg) ELSE errors

\* The conditions of validate()'s six checks.
DownPaymentFails(self) ==
    RLt(RDiv(Q(self.inputs.down_payment), Q(self.inputs.property_price)),
        self.restrictions.min_down_payment_percentage)

\* The loan-to-value check failing already at its maximum.
LoanToValueFails_AtMaximum(self, loan_metrics) ==
    RGe(loan_metrics.leverage_ratio, self.restrictions.max_loan_to_value)

LoanToValueFails(self, loan_metrics) ==
    RGt(loan_metrics.leverage_ratio, self.restrictions.max_loan_to_value)

MortgagePctFails(self, loan_metrics) ==
    RGt(RDiv(loan_metrics.loan_amount, Q(self.inputs.property_price)),
        self.restrictions.max_mortgage_percentage)

MortgageToIncomeFails(self, loan_metrics) ==
    RGt(loan_metrics.mortgage_to_income_ratio,
        self.restrictions.max_mortgage_to_income_ratio)

CashFlowFails(self, cash_flow_metrics) ==
    /\ self.restrictions.require_positive_cash_flow
    /\ RLt(cash_flow_metrics.monthly_net_cash_flow, Zero)

\* The urban renewal check failing already at its maximum.
UrbanRenewalFails_AtMaximum(self) ==
    RGe(Q(self.inputs.urban_renewal_value), self.restrictions.max_urban_renewal_value)

UrbanRenewalFails(self) ==
    RGt(Q(self.inputs.urban_renewal_value), self.restrictions.max_urban_renewal_value)

validate(self) ==
    LET loan_metrics == calculate_loan_metrics(self)
        cash_flow_metrics == calculate_cash_flow(self, loan_metrics)
        e1 == Append1(<<>>, DownPaymentFails(self), MsgDownPayment)
        e2 == Append1(e1, LoanToValueFails(self, loan_metrics), MsgLoanToValue)
        e3 == Append1(e2, MortgagePctFails(self, loan_metrics), MsgMortgagePct)
        e4 == Append1(e3, MortgageToIncomeFails(self, loan_metrics), MsgMortgageToIncome)
        e5 == Append1(e4, CashFlowFails(self, cash_flow_metrics), MsgNegativeCashFlow)
        e6 == Append1(e5, UrbanRenewalFails(self), MsgUrbanRenewal)
    IN  [is_valid |-> Len(e6) = 0, validation_errors |-> e6]

\* calculate(), the final summary values (locals of the method).
total_value_at_sale(early_repayment_metrics, portfolio_metrics) ==
    RAdd(early_repayment_metrics.proceeds_minus_debt, portfolio_metrics.portfolio_after_tax)

total_profit(early_repayment_metrics, portfolio_metrics) ==
    RAdd(early_repayment_metrics.net_gain_property, portfolio_metrics.net_portfolio_profit)

\* calculate(), the keyword arguments of its ScenarioResult(...) call.
CalculateResultKeywords ==
    {"inputs", "assumptions", "loan_metrics", "cash_flow_metrics",
     "appreciation_metrics", "early_repayment_metrics", "portfolio_metrics",
     "total_value_at_sale", "total_profit", "annual_return",
     "is_valid", "validation_errors"}

(***************************************************************************)
(* The scenarios drawn.                                                    *)
(***************************************************************************)
\* 2^24 - 1 = 4095 * 4097: a loan that is a multiple of 4097 keeps the
\* 12- and 24-month annuity payments at a monthly rate of 1 small fractions.
LoanUnit == 17 * 241

\* The longest mortgage term and the longest holding period drawn, in years.
MaxYears == 2

PriceArgs == {0, 4 * LoanUnit, 8 * LoanUnit}
DownUnits == {0, 1, 4, 5}
DownPaymentArgs == {-1} \cup {k * LoanUnit : k \in DownUnits}
AvailableCashArgs == {-1, 4 * LoanUnit, 5 * LoanUnit}
MonthlyIncomeArgs == {0, LoanUnit}
MonthlyAvailableArgs == {1000}
TermArgs == 0..MaxYears
YearsUntilSaleArgs == 0..MaxYears
UrbanRenewalArgs == {0, 400000, 500000}
ImprovementCostsArgs == {-1, 0}

ArgsSet ==
    [property_price      : PriceArgs,
     down_payment        : DownPaymentArgs,
     available_cash      : AvailableCashArgs,
     monthly_income      : MonthlyIncomeArgs,
     monthly_available   : MonthlyAvailableArgs,
     mortgage_term_years : TermArgs,
     years_until_sale    : YearsUntilSaleArgs,
     urban_renewal_value : UrbanRenewalArgs,
     is_first_house      : {TRUE},
     improvement_costs   : ImprovementCostsArgs]

AssumptionsSet ==
    [rental_yield           : {Zero, Norm(3, 4)},
     rent_increase_rate     : {Norm(3, 100)},
     mortgage_rate          : {Zero, Twelve},
     early_repayment_rate   : {Zero, Twelve},
     appreciation_rate      : {Zero, One},
     portfolio_return_rate  : {Zero, Twelve},
     risk_free_rate         : {Norm(3, 100)},
     capital_gains_tax_rate : {Norm(1, 4)}]

\* ConfigGenerator.create_strict_restrictions()
StrictRestrictions ==
    [DefaultRestrictions EXCEPT
        !.max_mortgage_to_income_ratio = Norm(1, 4),
        !.min_down_payment_percentage = Norm(1, 4),
        !.max_loan_to_value = Norm(7, 10),
        !.max_urban_renewal_value = Q(300000),
        !.require_positive_cash_flow = TRUE]

\* ConfigGenerator.create_lenient_restrictions()
LenientRestrictions ==
    [DefaultRestrictions EXCEPT
        !.max_mortgage_to_income_ratio = Norm(2, 5),
        !.min_down_payment_percentage = Norm(1, 10),
        !.max_loan_to_value = Norm(9, 10),
        !.max_urban_renewal_value = Q(500000)]

RestrictionsArgs == {None, Some(StrictRestrictions), Some(LenientRestrictions)}

\* The scenarios whose every amount stays inside TLC's integers.  Monthly
\* compounding at a monthly rate of 1: the deposit stream of the portfolio
\* stage is drawn for one year of deposits that carry no annuity payment;
\* an annuity payment is not combined with two or more years of growth of
\* the full urban renewal value; an annuity runs for at most 24 months and
\* an early repayment discounts at most 12 remaining months.
Representable(i, a) ==
    LET borrowed == i.down_payment < i.property_price
        annuity == a.mortgage_rate # Zero /\ borrowed
    IN  /\ annuity => i.mortgage_term_years * 12 <= 24
        /\ \/ a.early_repayment_rate = Zero
           \/ ~borrowed
           \/ (i.mortgage_term_years - i.years_until_sale) * 12 <= 12
        /\ \/ a.portfolio_return_rate = Zero
           \/ i.years_until_sale = 1 /\ ~annuity
        /\ \/ ~annuity
           \/ i.years_until_sale = 1
           \/ a.appreciation_rate = Zero
           \/ i.urban_renewal_value = 0

(***************************************************************************)
(* State.                                                                  *)
(***************************************************************************)
VARIABLES
    args,                     \* the arguments of the ScenarioInputs(...) call
    error,                    \* the ValueError message of that call, or NoError
    inputs,                   \* the ScenarioInputs object, once constructed
    calculator,               \* the ScenarioCalculator object (self)
    pc,                       \* the last step completed
    loan_metrics, cash_flow_metrics, appreciation_metrics,
    early_repayment_metrics, portfolio_metrics,     \* stage results
    validation,               \* validate()'s return value
    summary,                  \* calculate()'s final summary locals
    raised,                   \* the exception a calculator call raised, or NoError
    trace,                    \* the stages run so far, in order
    calls,                    \* the calls made to the functions of tax_config.py
                              \* and financial.py, with what each returned
    config_cities,            \* Yad2Scraper: self.config.cities, once constructed
    sc_pc,                    \* where the scraper is
    op,                       \* the method called on the scraper, with its argument
    city_index,               \* scrape_all_cities: position in config.cities
    combined,                 \* scrape_all_cities: its all_listings
    city_name,                \* scrape_city: its argument
    type_index,               \* scrape_city: position in PROPERTY_TYPES
    all_listings, seen_urls,  \* scrape_city: its locals
    result,                   \* what the method called on the scraper returned
    fetch_calls,              \* api_client.fetch_listings: the calls the current
                              \* scrape_city has made
    parsed,                   \* the listings parsed during the current scrape_city
    failed_types,             \* the property types that raised during it
    returns,                  \* what each scrape_city call of scrape_all_cities returned
    failed_cities             \* the cities whose scrape_city call raised

calculatorVars ==
    <<args, error, inputs, calculator, pc, loan_metrics, cash_flow_metrics,
      appreciation_metrics, early_repayment_metrics, portfolio_metrics,
      validation, summary, raised, trace>>

scraperVars ==
    <<config_cities, sc_pc, op, city_index, combined, city_name, type_index,
      all_listings, seen_urls, result, fetch_calls, parsed, failed_types,
      returns, failed_cities>>

vars == <<calculatorVars, calls, scraperVars>>

\* What the calculator, the library functions and the scraper each leave alone.
notCalculator == <<calls, scraperVars>>
notCalls == <<calculatorVars, scraperVars>>
notScraper == <<calculatorVars, calls>>

metrics == <<loan_metrics, cash_flow_metrics, appreciation_metrics,
             early_repayment_metrics, portfolio_metrics, validation, summary>>

self == Get(calculator)

Init ==
    /\ args = None
    /\ error = NoError
    /\ inputs = None
    /\ calculator = None
    /\ pc = "start"
    /\ loan_metrics = None
    /\ cash_flow_metrics = None
    /\ appreciation_metrics = None
    /\ early_repayment_metrics = None
    /\ portfolio_metrics = None
    /\ validation = None
    /\ summary = None
    /\ raised = NoError
    /\ trace = <<>>
    /\ calls = <<>>
    /\ config_cities = None
    /\ sc_pc = "new"
    /\ op = None
    /\ city_index = 0
    /\ combined = <<>>
    /\ city_name = None
    /\ type_index = 0
    /\ all_listings = <<>>
    /\ seen_urls = {}
    /\ result = None
    /\ fetch_calls = <<>>
    /\ parsed = <<>>
    /\ failed_types = {}
    /\ returns = <<>>
    /\ failed_cities = {}

\* ScenarioInputs(...): the dataclass __init__ followed by __post_init__.
Construct(a) ==
    /\ pc = "start"
    /\ UNCHANGED notCalculator
    /\ args' = Some(a)
    /\ error' = PostInitError(PostInitFields(a))
    /\ inputs' = IF error' = NoError THEN Some(PostInitFields(a)) ELSE None
    /\ pc' = IF error' = NoError THEN "inputs" ELSE "rejected"
    /\ UNCHANGED <<calculator, metrics, raised, trace>>

\* ScenarioCalculator(inputs, assumptions, restrictions)
NewCalculator(a, r) ==
    /\ pc = "inputs"
    /\ UNCHANGED notCalculator
    /\ Representable(Get(inputs), a)
    /\ calculator' = Some(ScenarioCalculatorInit(Get(inputs), a, r))
    /\ pc' = "ready"
    /\ UNCHANGED <<args, error, inputs, metrics, raised, trace>>

\* calculate(), one step per statement of its body.
LoanStage ==
    /\ pc = "ready"
    /\ UNCHANGED notCalculator
    /\ loan_metrics' = Some(calculate_loan_metrics(self))
    /\ pc' = "loan"
    /\ trace' = Append(trace, "loan")
    /\ UNCHANGED <<args, error, inputs, calculator, cash_flow_metrics,
                   appreciation_metrics, early_repayment_metrics, portfolio_metrics,
                   validation, summary, raised>>

CashFlowStage ==
    /\ pc = "loan"
    /\ UNCHANGED notCalculator
    /\ cash_flow_metrics' = Some(calculate_cash_flow(self, Get(loan_metrics)))
    /\ pc' = "cash_flow"
    /\ trace' = Append(trace, "cash_flow")
    /\ UNCHANGED <<args, error, inputs, calculator, loan_metrics,
                   appreciation_metrics, early_repayment_metrics, portfolio_metrics,
                   validation, summary, raised>>

AppreciationStage ==
    /\ pc = "cash_flow"
    /\ UNCHANGED notCalculator
    /\ \E returned \in calculate_appreciation(self, Get(loan_metrics),
                                               Get(cash_flow_metrics)) :
           appreciation_metrics' = Some(returned)
    /\ pc' = "appreciation"
    /\ trace' = Append(trace, "appreciation")
    /\ UNCHANGED <<args, error, inputs, calculator, loan_metrics, cash_flow_metrics,
                   early_repayment_metrics, portfolio_metrics,
                   validation, summary, raised>>

EarlyRepaymentStage ==
    /\ pc = "appreciation"
    /\ UNCHANGED notCalculator
    /\ early_repayment_metrics' =
           Some(calculate_early_repayment(self, Get(loan_metrics), Get(appreciation_metrics)))
    /\ pc' = "early_repayment"
    /\ trace' = Append(trace, "early_repayment")
    /\ UNCHANGED <<args, error, inputs, calculator, loan_metrics, cash_flow_metrics,
                   appreciation_metrics, portfolio_metrics,
                   validation, summary, raised>>

PortfolioStage ==
    /\ pc = "early_repayment"
    /\ UNCHANGED notCalculator
    /\ portfolio_metrics' = Some(calculate_portfolio(self, Get(cash_flow_metrics)))
    /\ pc' = "portfolio"
    /\ trace' = Append(trace, "portfolio")
    /\ UNCHANGED <<args, error, inputs, calculator, loan_metrics, cash_flow_metrics,
                   appreciation_metrics, early_repayment_metrics,
                   validation, summary, raised>>

ValidateStage ==
    /\ pc = "portfolio"
    /\ UNCHANGED notCalculator
    /\ validation' = Some(validate(self))
    /\ pc' = "validation"
    /\ trace' = Append(trace, "validation")
    /\ UNCHANGED <<args, error, inputs, calculator, loan_metrics, cash_flow_metrics,
                   appreciation_metrics, early_repayment_metrics, portfolio_metrics,
                   summary, raised>>

\* The final summary values, then the ScenarioResult(...) call that ends calculate().
SummaryStage ==
    /\ pc = "validation"
    /\ UNCHANGED notCalculator
    /\ summary' =
           Some([total_value_at_sale |->
                     total_value_at_sale(Get(early_repayment_metrics), Get(portfolio_metrics)),
                 total_profit |->
                     total_profit(Get(early_repayment_metrics), Get(portfolio_metrics))])
    /\ raised' = ScenarioResultInit(CalculateResultKeywords)
    /\ pc' = "done"
    /\ trace' = Append(trace, "summary")
    /\ UNCHANGED <<args, error, inputs, calculator, loan_metrics, cash_flow_metrics,
                   appreciation_metrics, early_repayment_metrics, portfolio_metrics,
                   validation>>

\* A caller that runs the stage methods itself and then asks for the tax stage:
\* calculator.calculate_taxes(appreciation_metrics, early_repayment_metrics).
CallCalculateTaxes ==
    /\ pc = "early_repayment"
    /\ UNCHANGED notCalculator
    /\ raised' = GetMethod("calculate_taxes")
    /\ pc' = IF raised' = NoError THEN "taxes" ELSE "call_failed"
    /\ trace' = IF raised' = NoError THEN Append(trace, "taxes") ELSE trace
    /\ UNCHANGED <<args, error, inputs, calculator, metrics>>

Next ==
    \/ pc = "start" /\ \E a \in ArgsSet : Construct(a)
    \/ pc = "inputs" /\ \E a \in AssumptionsSet, r \in RestrictionsArgs : NewCalculator(a, r)
    \/ LoanStage
    \/ CashFlowStage
    \/ AppreciationStage
    \/ EarlyRepaymentStage
    \/ PortfolioStage
    \/ ValidateStage
    \/ SummaryStage
    \/ CallCalculateTaxes

Spec == Init /\ [][Next]_vars

(***************************************************************************)
(* tax_config.py called directly: a log of calls, each with its arguments  *)
(* and the value returned.                                                 *)
(***************************************************************************)
\* The longest log of calls drawn.
MaxCalls == 2

\* Amounts below, on, just above and between the bracket boundaries.
PropertyValueArgs ==
    {Q(-1), Zero, One, Q(1000000), Q(1805000), Norm(3610001, 2), Q(1805001),
     Q(2000000), Q(2085000), Q(2085001), Q(5000000), Q(5000001), Q(17000000),
     Q(17000001), Q(20000000)}

SalePriceArgs == {Q(1000000), Q(2000000)}
PurchasePriceArgs == {Q(1000000), Q(1500000)}
PurchaseTaxPaidArgs == {Zero, Q(100000)}
ImprovementArgs == {Zero, Q(400000), Q(500000)}

CallPurchaseTax(property_value, is_first_house) ==
    /\ Len(calls) < MaxCalls
    /\ calls' = Append(calls,
           [fn             |-> "calculate_purchase_tax",
            property_value |-> property_value,
            is_first_house |-> is_first_house,
            ret            |-> calculate_purchase_tax(property_value, is_first_house)])
    /\ UNCHANGED notCalls

CallCapitalGainsTax(sale_price, purchase_price, purchase_tax_paid, improvement_costs) ==
    /\ Len(calls) < MaxCalls
    /\ calls' = Append(calls,
           [fn                |-> "calculate_capital_gains_tax",
            sale_price        |-> sale_price,
            purchase_price    |-> purchase_price,
            purchase_tax_paid |-> purchase_tax_paid,
            improvement_costs |-> improvement_costs,
            ret               |-> calculate_capital_gains_tax(
                                      sale_price, purchase_price,
                                      purchase_tax_paid, improvement_costs)])
    /\ UNCHANGED notCalls

TaxNext ==
    \/ \E v \in PropertyValueArgs, f \in BOOLEAN : CallPurchaseTax(v, f)
    \/ \E s \in SalePriceArgs, p \in PurchasePriceArgs,
          t \in PurchaseTaxPaidArgs, i \in ImprovementArgs :
            CallCapitalGainsTax(s, p, t, i)

TaxSpec == Init /\ [][TaxNext]_vars

(***************************************************************************)
(* financial.py called directly, logged the same way.                      *)
(***************************************************************************)
PmtRateArgs == {Zero, Twelve, RNeg(Twelve)}
PmtNperArgs == {0, 1, 12, 240}
PmtPvArgs == {Q(-4097), Zero, Q(4097), Q(1000000)}

\* The calls drawn: none takes pv / nper with an nper of 0 (Python raises
\* ZeroDivisionError there), an annuity runs for at most 12 months, and a
\* rate below 0 is drawn for no months, where the sign of npf.pmt's zero
\* divisor shows.
PmtArgsDrawn(rate, nper, pv) ==
    /\ nper > 0 \/ pv = Zero \/ rate # Zero
    /\ rate = Zero \/ nper <= 12
    /\ RGe(rate, Zero) \/ nper = 0

AnnualizedReturnArgs == {Zero, Q(-9), RNeg(One)}
AnnualizedYearsArgs == {1, 3}

CompoundPrincipalArgs == {Q(1000), Q(-1000)}
CompoundRateArgs == {Zero, One, Norm(-1, 2)}
CompoundYearsArgs == {-1, 0, 2}

CallPmt(rate, nper, pv) ==
    /\ Len(calls) < MaxCalls
    /\ PmtArgsDrawn(rate, nper, pv)
    /\ calls' = Append(calls,
           [fn    |-> "calculate_pmt",
            rate  |-> rate,
            nper  |-> nper,
            pv    |-> pv,
            ret   |-> calculate_pmt(rate, nper, pv),
            ret64 |-> IF rate = Zero /\ RGt(pv, Zero) /\ pv[2] = 1
                      THEN Some(calculate_pmt_zero_rate_double(nper, pv))
                      ELSE None])
    /\ UNCHANGED notCalls

CallCompoundGrowth(principal, rate, years) ==
    /\ Len(calls) < MaxCalls
    /\ calls' = Append(calls,
           [fn        |-> "calculate_compound_growth",
            principal |-> principal,
            rate      |-> rate,
            years     |-> years,
            ret       |-> calculate_compound_growth(principal, rate, years)])
    /\ UNCHANGED notCalls

CallCompoundValue(principal, rate, years) ==
    /\ Len(calls) < MaxCalls
    /\ calls' = Append(calls,
           [fn        |-> "calculate_compound_value",
            principal |-> principal,
            rate      |-> rate,
            years     |-> years,
            ret       |-> calculate_compound_value(principal, rate, years)])
    /\ UNCHANGED notCalls

\* A call of calculate_annualized_return, with one of the values it can
\* return.
CallAnnualizedReturn(total_return, years) ==
    /\ Len(calls) < MaxCalls
    /\ \E ret \in calculate_annualized_return(total_return, years) :
           calls' = Append(calls,
               [fn           |-> "calculate_annualized_return",
                total_return |-> total_return,
                years        |-> years,
                ret          |-> ret])
    /\ UNCHANGED notCalls

FinancialNext ==
    \/ \E r \in PmtRateArgs, n \in PmtNperArgs, pv \in PmtPvArgs : CallPmt(r, n, pv)
    \/ \E t \in AnnualizedReturnArgs, y \in AnnualizedYearsArgs : CallAnnualizedReturn(t, y)
    \/ \E p \in CompoundPrincipalArgs, r \in CompoundRateArgs, y \in CompoundYearsArgs :
          CallCompoundGrowth(p, r, y)
    \/ \E p \in CompoundPrincipalArgs, r \in CompoundRateArgs, y \in CompoundYearsArgs :
          CallCompoundValue(p, r, y)

FinancialSpec == Init /\ [][FinancialNext]_vars

(***************************************************************************)
(* calculate_loan_metrics and calculate_cash_flow called on calculators    *)
(* with every rate 0, logged the same way: each call with the stage        *)
(* results in exact arithmetic and, when there is a loan, in doubles.      *)
(***************************************************************************)
CashFlowPriceArgs == {31, 4 * LoanUnit, 1000000}
CashFlowDownArgs == {0, 31}
CashFlowTermArgs == {1, 20}

\* InvestmentAssumptions with every rate 0.
ZeroRateAssumptions ==
    [rental_yield           |-> Zero,
     rent_increase_rate     |-> Zero,
     mortgage_rate          |-> Zero,
     early_repayment_rate   |-> Zero,
     appreciation_rate      |-> Zero,
     portfolio_return_rate  |-> Zero,
     risk_free_rate         |-> Zero,
     capital_gains_tax_rate |-> Zero]

CashFlowInputs(property_price, down_payment, mortgage_term_years) ==
    [property_price      |-> property_price,
     down_payment        |-> down_payment,
     available_cash      |-> property_price,
     monthly_income      |-> LoanUnit,
     monthly_available   |-> 1000,
     mortgage_term_years |-> mortgage_term_years,
     years_until_sale    |-> mortgage_term_years,
     urban_renewal_value |-> 0,
     is_first_house      |-> TRUE,
     improvement_costs   |-> 0]

CallCashFlow(property_price, down_payment, mortgage_term_years) ==
    LET i == CashFlowInputs(property_price, down_payment, mortgage_term_years)
        c == ScenarioCalculatorInit(i, ZeroRateAssumptions, None)
        loan == calculate_loan_metrics(c)
        loan_amount == calculate_mortgage_amount(i)
        loan64 == calculate_loan_metrics_double(loan_amount, mortgage_term_years)
    IN  /\ Len(calls) < MaxCalls
        /\ PostInitError(i) = NoError
        /\ calls' = Append(calls,
               [fn                  |-> "calculate_cash_flow",
                property_price      |-> property_price,
                down_payment        |-> down_payment,
                mortgage_term_years |-> mortgage_term_years,
                loan_metrics        |-> loan,
                ret                 |-> calculate_cash_flow(c, loan),
                loan_metrics64      |->
                    IF loan_amount > 0 THEN Some(loan64) ELSE None,
                ret64               |->
                    IF loan_amount > 0
                    THEN Some(calculate_cash_flow_double(loan_amount, mortgage_term_years,
                                                         loan64))
                    ELSE None])
        /\ UNCHANGED notCalls

CashFlowNext ==
    \E p \in CashFlowPriceArgs, d \in CashFlowDownArgs, t \in CashFlowTermArgs :
        CallCashFlow(p, d, t)

CashFlowSpec == Init /\ [][CashFlowNext]_vars

(***************************************************************************)
(* calculate_portfolio called on calculators that hold a property of 241,  *)
(* all of it borrowed, for a year, with no rent, a mortgage_rate of 0, a    *)
(* capital_gains_tax_rate of 0.25 and a portfolio_return_rate of 0 or 12:  *)
(* each call logged with the stage's result in exact arithmetic and in     *)
(* doubles.                                                                *)
(***************************************************************************)
PortfolioTermArgs == {1, 20}
PortfolioAvailableArgs == {0, 5, 7}
PortfolioRateArgs == {Zero, Twelve}

PortfolioAssumptions(portfolio_return_rate) ==
    [ZeroRateAssumptions EXCEPT !.portfolio_return_rate = portfolio_return_rate,
                                !.capital_gains_tax_rate = Norm(1, 4)]

PortfolioInputs(mortgage_term_years, monthly_available) ==
    [CashFlowInputs(241, 0, mortgage_term_years)
        EXCEPT !.monthly_available = monthly_available,
               !.years_until_sale = 1]

CallPortfolio(mortgage_term_years, monthly_available, portfolio_return_rate) ==
    LET i == PortfolioInputs(mortgage_term_years, monthly_available)
        c == ScenarioCalculatorInit(i, PortfolioAssumptions(portfolio_return_rate), None)
        loan == calculate_loan_metrics(c)
        loan_amount == calculate_mortgage_amount(i)
        loan64 == calculate_loan_metrics_double(loan_amount, mortgage_term_years)
        cash_flow64 == calculate_cash_flow_double(loan_amount, mortgage_term_years, loan64)
    IN  /\ Len(calls) < MaxCalls
        /\ PostInitError(i) = NoError
        /\ loan_amount > 0
        /\ calls' = Append(calls,
               [fn                    |-> "calculate_portfolio",
                property_price        |-> i.property_price,
                down_payment          |-> i.down_payment,
                mortgage_term_years   |-> mortgage_term_years,
                monthly_available     |-> monthly_available,
                years_until_sale      |-> i.years_until_sale,
                portfolio_return_rate |-> portfolio_return_rate,
                ret                   |->
                    calculate_portfolio(c, calculate_cash_flow(c, loan)),
                ret64                 |-> calculate_portfolio_double(c, cash_flow64)])
        /\ UNCHANGED notCalls

PortfolioNext ==
    \E t \in PortfolioTermArgs, m \in PortfolioAvailableArgs, r \in PortfolioRateArgs :
        CallPortfolio(t, m, r)

PortfolioSpec == Init /\ [][PortfolioNext]_vars

(***************************************************************************)
(* scraper/scraper.py: Yad2Scraper, with the api client and the responses  *)
(* it receives as the environment.                                         *)
(***************************************************************************)
\* The most cities a configuration lists.
MaxCities == 2

\* Yad2ApiClient.PROPERTY_TYPES
PROPERTY_TYPES == <<1, 2, 4, 5, 6, 7>>

\* config.CITY_DATA, each city's "id", for the cities drawn.
CITY_DATA ==
    [name \in {"תל אביב", "ירושלים", "חיפה", "באר שבע"} |->
        CASE name = "תל אביב" -> 5000
          [] name = "ירושלים" -> 3000
          [] name = "חיפה" -> 4000
          [] name = "באר שבע" -> 9000]

\* ScraperConfig.get_city_id raises ValueError for a name outside CITY_DATA.
get_city_id_raises(name) == name \notin DOMAIN CITY_DATA

get_city_id(name) == CITY_DATA[name]

CityArgs == {"באר שבע", "חיפה", "Atlantis"}

\* ScraperConfig(cities=...): the lists of one to MaxCities cities.
CitiesArgs == UNION {[1..n -> CityArgs] : n \in 1..MaxCities}

\* ListingParser.LISTING_URL_TEMPLATE, up to the token.
LISTING_URL_TEMPLATE == "https://www.yad2.co.il/realestate/item/"

\* An item of a response, by what parse_listing reads of it:
\*   token         None for no "token" key, Some(None) for a null, Some(Some(t))
\*   price         None for no "price" key or a null, Some(p)
\*   address_city  None for no address, no city in it or an empty city;
\*                 Some(None) for a city without text, Some(Some(text))
Item(token, price, address_city) ==
    [token |-> token, price |-> price, address_city |-> address_city]

\* str.format of the token into the url: None prints as "None".
FormatToken(token) == IF token = None THEN "None" ELSE Get(token)

\* ListingParser.parse_listing: the url is built from the item's token,
\* "unknown" when the item has no such key; the city is the text of the
\* item's address.city when there is one and it is not empty, and else the
\* city argument; a price of 0 means no price.
parse_listing(data, city) ==
    LET token == IF data.token = None THEN "unknown" ELSE FormatToken(Get(data.token))
        extracted_city == IF data.address_city = None THEN Some(city)
                          ELSE Get(data.address_city)
    IN  [url   |-> <<LISTING_URL_TEMPLATE, token>>,
         city  |-> IF extracted_city = None \/ extracted_city = Some("")
                   THEN city ELSE Get(extracted_city),
         price |-> IF data.price = Some(0) THEN None ELSE data.price]

\* ListingParser.parse_response on the items of a well-formed response.
parse_response(api_response, city) ==
    [k \in 1..Len(api_response) |-> parse_listing(api_response[k], city)]

\* The responses the API gives: None is a body parse_response raises on;
\* otherwise the items of data[0].  The second response repeats a token of
\* the first at another price and under a city of its own, repeats one of
\* its own, and has an item without a token and with a price of 0 and an
\* item with a null token, no price and a city without text.
ResponseArgs ==
    {None,
     Some(<<Item(Some(Some("token_0")), Some(1000000), None)>>),
     Some(<<Item(Some(Some("token_1")), Some(1100000), None),
            Item(Some(Some("token_0")), Some(1200000), Some(Some("תל אביב"))),
            Item(Some(Some("token_1")), Some(1100000), None),
            Item(None, Some(0), None),
            Item(Some(None), None, Some(None))>>)}

\* What fetch_listings does: it raises (None) or returns a response.
FetchArgs == {None} \cup {Some(r) : r \in ResponseArgs}

RECURSIVE AddUnique_NoSeenCheck(_, _, _)
\* Every listing appended, seen or not.
AddUnique_NoSeenCheck(listings_so_far, seen, listings) ==
    IF listings = <<>>
    THEN [all_listings |-> listings_so_far, seen_urls |-> seen]
    ELSE AddUnique_NoSeenCheck(Append(listings_so_far, Head(listings)),
                               seen \cup {Head(listings).url}, Tail(listings))

RECURSIVE AddUnique(_, _, _)
\* scrape_city's inner loop: a listing is appended when its url is new.
AddUnique(listings_so_far, seen, listings) ==
    IF listings = <<>>
    THEN [all_listings |-> listings_so_far, seen_urls |-> seen]
    ELSE IF Head(listings).url \notin seen
         THEN AddUnique(Append(listings_so_far, Head(listings)),
                        seen \cup {Head(listings).url}, Tail(listings))
         ELSE AddUnique(listings_so_far, seen, Tail(listings))

\* The loop left at the first exception.
AfterTypeError_Break(index) == Len(PROPERTY_TYPES)

\* scrape_city's except clause: continue with the next property type.
AfterTypeError(index) == index + 1

\* Yad2Scraper(config, api_client, parser, exporter)
ConstructScraper(cities) ==
    /\ sc_pc = "new"
    /\ config_cities' = Some(cities)
    /\ sc_pc' = "ready"
    /\ UNCHANGED <<op, city_index, combined, city_name, type_index, all_listings,
                   seen_urls, result, fetch_calls, parsed, failed_types, returns,
                   failed_cities>>
    /\ UNCHANGED notScraper

\* scrape_city(name) called from outside, up to its loop; the ValueError of
\* get_city_id reaches the caller.
CallScrapeCity(name) ==
    /\ sc_pc = "ready"
    /\ op' = Some([method |-> "scrape_city", city_name |-> Some(name)])
    /\ IF get_city_id_raises(name)
       THEN /\ sc_pc' = "raised"
            /\ UNCHANGED <<city_name, type_index, all_listings, seen_urls,
                           fetch_calls, parsed, failed_types>>
       ELSE /\ sc_pc' = "property_types"
            /\ city_name' = Some(name)
            /\ type_index' = 0
            /\ all_listings' = <<>>
            /\ seen_urls' = {}
            /\ fetch_calls' = <<>>
            /\ parsed' = <<>>
            /\ failed_types' = {}
    /\ UNCHANGED <<config_cities, city_index, combined, result, returns, failed_cities>>
    /\ UNCHANGED notScraper

\* One pass of scrape_city's loop over PROPERTY_TYPES.
ScrapePropertyType(fetched) ==
    /\ sc_pc = "property_types"
    /\ type_index < Len(PROPERTY_TYPES)
    /\ LET property_type == PROPERTY_TYPES[type_index + 1]
           city_id == get_city_id(Get(city_name))
           succeeds == fetched # None /\ Get(fetched) # None
           listings == parse_response(Get(Get(fetched)), Get(city_name))
           added == AddUnique(all_listings, seen_urls, listings)
       IN  /\ fetch_calls' = Append(fetch_calls, <<city_id, property_type>>)
           /\ IF succeeds
              THEN /\ all_listings' = added.all_listings
                   /\ seen_urls' = added.seen_urls
                   /\ parsed' = parsed \o listings
                   /\ type_index' = type_index + 1
                   /\ UNCHANGED failed_types
              ELSE /\ failed_types' = failed_types \cup {property_type}
                   /\ type_index' = AfterTypeError(type_index)
                   /\ UNCHANGED <<all_listings, seen_urls, parsed>>
    /\ UNCHANGED <<config_cities, sc_pc, op, city_index, combined, city_name,
                   result, returns, failed_cities>>
    /\ UNCHANGED notScraper

\* scrape_city returns all_listings: to the outside caller, or to
\* scrape_all_cities, which extends its list with them.
ScrapeCityReturns ==
    /\ sc_pc = "property_types"
    /\ type_index >= Len(PROPERTY_TYPES)
    /\ IF Get(op).method = "scrape_city"
       THEN /\ result' = Some(all_listings)
            /\ sc_pc' = "done"
            /\ UNCHANGED <<combined, returns, city_index>>
       ELSE /\ combined' = combined \o all_listings
            /\ returns' = Append(returns, [city |-> city_index + 1,
                                           listings |-> all_listings])
            /\ city_index' = city_index + 1
            /\ sc_pc' = "cities"
            /\ UNCHANGED result
    /\ UNCHANGED <<config_cities, op, city_name, type_index, all_listings, seen_urls,
                   fetch_calls, parsed, failed_types, failed_cities>>
    /\ UNCHANGED notScraper

\* scrape_all_cities() called, up to its loop.
CallScrapeAllCities ==
    /\ sc_pc = "ready"
    /\ op' = Some([method |-> "scrape_all_cities", city_name |-> None])
    /\ combined' = <<>>
    /\ city_index' = 0
    /\ sc_pc' = "cities"
    /\ UNCHANGED <<config_cities, city_name, type_index, all_listings, seen_urls,
                   result, fetch_calls, parsed, failed_types, returns, failed_cities>>
    /\ UNCHANGED notScraper

\* scrape_all_cities' loop reaches a city get_city_id knows: scrape_city starts.
NextCityStarts ==
    /\ sc_pc = "cities"
    /\ city_index < Len(Get(config_cities))
    /\ ~get_city_id_raises(Get(config_cities)[city_index + 1])
    /\ city_name' = Some(Get(config_cities)[city_index + 1])
    /\ type_index' = 0
    /\ all_listings' = <<>>
    /\ seen_urls' = {}
    /\ fetch_calls' = <<>>
    /\ parsed' = <<>>
    /\ failed_types' = {}
    /\ sc_pc' = "property_types"
    /\ UNCHANGED <<config_cities, op, city_index, combined, result, returns,
                   failed_cities>>
    /\ UNCHANGED notScraper

\* scrape_all_cities' loop reaches a city whose scrape_city raises: the except
\* clause continues with the next city.
NextCityFails ==
    /\ sc_pc = "cities"
    /\ city_index < Len(Get(config_cities))
    /\ get_city_id_raises(Get(config_cities)[city_index + 1])
    /\ failed_cities' = failed_cities \cup {city_index + 1}
    /\ city_index' = city_index + 1
    /\ UNCHANGED <<config_cities, sc_pc, op, combined, city_name, type_index,
                   all_listings, seen_urls, result, fetch_calls, parsed,
                   failed_types, returns>>
    /\ UNCHANGED notScraper

\* scrape_all_cities returns its combined list.
ScrapeAllCitiesReturns ==
    /\ sc_pc = "cities"
    /\ city_index = Len(Get(config_cities))
    /\ result' = Some(combined)
    /\ sc_pc' = "done"
    /\ UNCHANGED <<config_cities, op, city_index, combined, city_name, type_index,
                   all_listings, seen_urls, fetch_calls, parsed, failed_types,
                   returns, failed_cities>>
    /\ UNCHANGED notScraper

ScraperNext ==
    \/ \E cities \in CitiesArgs : ConstructScraper(cities)
    \/ \E name \in CityArgs : CallScrapeCity(name)
    \/ \E fetched \in FetchArgs : ScrapePropertyType(fetched)
    \/ ScrapeCityReturns
    \/ CallScrapeAllCities
    \/ NextCityStarts
    \/ NextCityFails
    \/ ScrapeAllCitiesReturns

ScraperSpec == Init /\ [][ScraperNext]_vars

(***************************************************************************)
(* Properties.                                                             *)
(***************************************************************************)
Constructed == inputs # None
LoanDone == loan_metrics # None
CashFlowDone == cash_flow_metrics # None
AppreciationDone == appreciation_metrics # None
EarlyRepaymentDone == early_repayment_metrics # None
PortfolioDone == portfolio_metrics # None
Validated == validation # None
CalculateEnded == pc = "done"
TaxStageCalled == pc \in {"taxes", "call_failed"}

IsPrefix(s, t) == Len(s) <= Len(t) /\ \A i \in 1..Len(s) : s[i] = t[i]

\* The tax stage as the specification describes it (stage 6), from the
\* functions of tax_config.py.
ClaimedTotalTaxes ==
    LET i == self.inputs
        purchase_tax == calculate_purchase_tax(Q(i.property_price), i.is_first_house)
    IN  RAdd(purchase_tax,
             calculate_capital_gains_tax(Get(appreciation_metrics).sale_value,
                                         Q(i.property_price), purchase_tax,
                                         Q(i.improvement_costs)))

\* C1: calculate() on any constructed ScenarioInputs completes without raising
\* and returns a ScenarioResult; restriction violations show only in is_valid
\* and validation_errors.
C1_CalculateReturnsResult ==
    CalculateEnded =>
        /\ raised = NoError
        /\ Get(validation).is_valid <=> Get(validation).validation_errors = <<>>

\* C2: the total_profit of calculate() is the property net gain after taxes
\* plus the portfolio net profit.
C2_TotalProfitAfterTaxes ==
    CalculateEnded =>
        Get(summary).total_profit =
            RAdd(RSub(Get(early_repayment_metrics).net_gain_property, ClaimedTotalTaxes),
                 Get(portfolio_metrics).net_portfolio_profit)

\* C3: the tax stage yields a TaxMetrics: calculate_taxes(appreciation_metrics,
\* early_repayment_metrics) returns one, and calculate() runs the stage.
C3_TaxStageYieldsTaxMetrics ==
    /\ TaxStageCalled => (raised = NoError /\ pc = "taxes")
    /\ CalculateEnded => \E k \in 1..Len(trace) : trace[k] = "taxes"

ClaimedStageOrder ==
    <<"loan", "cash_flow", "appreciation", "early_repayment", "portfolio",
      "taxes", "validation", "summary">>

\* C4: calculate() runs its stages in the order loan, cash flow, appreciation,
\* early repayment, portfolio, taxes, validation, summary.
C4_StageOrder ==
    /\ IsPrefix(trace, ClaimedStageOrder)
    /\ CalculateEnded => trace = ClaimedStageOrder

InvalidArgs(a) ==
    \/ a.property_price <= 0
    \/ a.down_payment < 0
    \/ a.available_cash < 0
    \/ a.mortgage_term_years <= 0
    \/ a.years_until_sale <= 0
    \/ a.monthly_income <= 0
    \/ a.improvement_costs < 0

\* C5: ScenarioInputs(...) raises ValueError exactly when one of the seven
\* conditions holds, and every constructed object satisfies all seven invariants.
C5_ConstructionRaisesExactly ==
    args # None =>
        /\ (error # NoError) <=> InvalidArgs(Get(args))
        /\ Constructed <=> ~InvalidArgs(Get(args))
        /\ Constructed =>
              /\ Get(inputs).property_price > 0
              /\ Get(inputs).down_payment >= 0
              /\ Get(inputs).available_cash >= 0
              /\ Get(inputs).mortgage_term_years > 0
              /\ Get(inputs).years_until_sale > 0
              /\ Get(inputs).monthly_income > 0
              /\ Get(inputs).improvement_costs >= 0

\* A call rejected for its improvement_costs alone.
C5_Witness ==
    /\ pc = "rejected"
    /\ error # NoError
    /\ Get(args).improvement_costs < 0
    /\ ~InvalidArgs([Get(args) EXCEPT !.improvement_costs = 0])

\* C6: an urban_renewal_value above 400,000 is no reason for rejection; the
\* object stores min(value, 400,000).
C6_UrbanRenewalClamped ==
    args # None =>
        /\ (Get(args).urban_renewal_value > 400000 /\ ~InvalidArgs(Get(args)))
              => Constructed
        /\ Constructed =>
              /\ Get(inputs).urban_renewal_value <= 400000
              /\ Get(inputs).urban_renewal_value =
                    IF Get(args).urban_renewal_value > 400000
                    THEN 400000
                    ELSE Get(args).urban_renewal_value

C6_Witness ==
    /\ Constructed
    /\ Get(args).urban_renewal_value = 500000
    /\ Get(inputs).urban_renewal_value = 400000

C7_ExpectedErrors ==
    LET i == self.inputs
        r == self.restrictions
        lm == Get(loan_metrics)
        cf == Get(cash_flow_metrics)
    IN  (IF RLt(RDiv(Q(i.down_payment), Q(i.property_price)), r.min_down_payment_percentage)
         THEN <<MsgDownPayment>> ELSE <<>>)
        \o (IF RGt(lm.leverage_ratio, r.max_loan_to_value)
            THEN <<MsgLoanToValue>> ELSE <<>>)
        \o (IF RGt(RDiv(lm.loan_amount, Q(i.property_price)), r.max_mortgage_percentage)
            THEN <<MsgMortgagePct>> ELSE <<>>)
        \o (IF RGt(lm.mortgage_to_income_ratio, r.max_mortgage_to_income_ratio)
            THEN <<MsgMortgageToIncome>> ELSE <<>>)
        \o (IF r.require_positive_cash_flow /\ RLt(cf.monthly_net_cash_flow, Zero)
            THEN <<MsgNegativeCashFlow>> ELSE <<>>)
        \o (IF RGt(Q(i.urban_renewal_value), r.max_urban_renewal_value)
            THEN <<MsgUrbanRenewal>> ELSE <<>>)

\* C7: validate() returns is_valid exactly when its list is empty, and the list
\* holds one message for exactly each failed check, in the order of the checks;
\* a value equal to its threshold passes.
C7_ValidateListsFailedChecks ==
    Validated =>
        /\ Get(validation).is_valid <=> Get(validation).validation_errors = <<>>
        /\ Get(validation).validation_errors = C7_ExpectedErrors

\* Loan-to-value equal to its maximum passes while the payment-to-income check
\* fails.
C7_Witness ==
    /\ Validated
    /\ Get(loan_metrics).leverage_ratio = self.restrictions.max_loan_to_value
    /\ Get(validation).validation_errors = <<MsgMortgageToIncome>>

FullCash == Constructed /\ Get(inputs).down_payment = Get(inputs).property_price

\* C8 as stated: with down_payment == property_price there is no loan and no
\* payment, the net cash flow is the monthly rent, which is positive, and
\* nothing is left for the portfolio.
C8_FullCashAsStated ==
    (FullCash /\ PortfolioDone) =>
        /\ Get(loan_metrics).loan_amount = Zero
        /\ Get(loan_metrics).monthly_payment = Zero
        /\ Get(cash_flow_metrics).monthly_net_cash_flow = self.monthly_rent
        /\ RGt(self.monthly_rent, Zero)
        /\ Get(portfolio_metrics).cash_in_portfolio = Zero

\* C8 amended: the rent is positive exactly when the rental yield is, and the
\* portfolio receives available_cash - down_payment.
C8_FullCash ==
    /\ (FullCash /\ LoanDone) =>
          /\ Get(loan_metrics).loan_amount = Zero
          /\ Get(loan_metrics).monthly_payment = Zero
    /\ (FullCash /\ CashFlowDone) =>
          /\ Get(cash_flow_metrics).monthly_net_cash_flow = self.monthly_rent
          /\ RGt(self.monthly_rent, Zero) <=> RGt(self.assumptions.rental_yield, Zero)
    /\ (FullCash /\ PortfolioDone) =>
          /\ Get(portfolio_metrics).cash_in_portfolio =
                Q(Get(inputs).available_cash - Get(inputs).down_payment)
          /\ (Get(portfolio_metrics).cash_in_portfolio = Zero)
                <=> (Get(inputs).available_cash = Get(inputs).down_payment)

C8_Witness ==
    /\ FullCash
    /\ PortfolioDone
    /\ Get(inputs).available_cash > Get(inputs).down_payment
    /\ Get(portfolio_metrics).cash_in_portfolio # Zero
    /\ RGt(Get(cash_flow_metrics).monthly_net_cash_flow, Zero)

\* C9: with no loan, or a sale at or after the end of the term, nothing is
\* owed: remaining mortgage, penalty and debt are 0, the proceeds are the sale
\* value and the net gain is the sale value less the down payment.
C9_NoEarlyRepayment ==
    (EarlyRepaymentDone
        /\ (Get(loan_metrics).loan_amount = Zero
            \/ Get(inputs).years_until_sale >= Get(inputs).mortgage_term_years)) =>
        /\ Get(early_repayment_metrics).remaining_mortgage = Zero
        /\ Get(early_repayment_metrics).early_repayment_penalty = Zero
        /\ Get(early_repayment_metrics).total_debt_to_bank = Zero
        /\ Get(early_repayment_metrics).proceeds_minus_debt =
              Get(appreciation_metrics).sale_value
        /\ Get(early_repayment_metrics).net_gain_property =
              RSub(Get(appreciation_metrics).sale_value, Q(Get(inputs).down_payment))

\* An on-schedule sale of a mortgaged property with a down payment.
C9_Witness ==
    /\ EarlyRepaymentDone
    /\ Get(inputs).years_until_sale = Get(inputs).mortgage_term_years
    /\ RGt(Get(loan_metrics).loan_amount, Zero)
    /\ Get(inputs).down_payment > 0
    /\ Get(early_repayment_metrics).remaining_mortgage = Zero

EarlySale ==
    /\ RGt(Get(loan_metrics).loan_amount, Zero)
    /\ Get(inputs).years_until_sale < Get(inputs).mortgage_term_years

\* C10: an early sale with a positive loan leaves a positive remaining mortgage
\* and a debt no smaller than it; in both branches the debt is remaining
\* mortgage plus penalty, the proceeds are the sale value less the debt and
\* the net gain is the proceeds less the down payment.
C10_EarlySaleDebt ==
    EarlyRepaymentDone =>
        /\ EarlySale =>
              /\ RGt(Get(early_repayment_metrics).remaining_mortgage, Zero)
              /\ RGe(Get(early_repayment_metrics).total_debt_to_bank,
                     Get(early_repayment_metrics).remaining_mortgage)
        /\ Get(early_repayment_metrics).total_debt_to_bank =
              RAdd(Get(early_repayment_metrics).remaining_mortgage,
                   Get(early_repayment_metrics).early_repayment_penalty)
        /\ Get(early_repayment_metrics).proceeds_minus_debt =
              RSub(Get(appreciation_metrics).sale_value,
                   Get(early_repayment_metrics).total_debt_to_bank)
        /\ Get(early_repayment_metrics).net_gain_property =
              RSub(Get(early_repayment_metrics).proceeds_minus_debt,
                   Q(Get(inputs).down_payment))

\* An early sale that pays a penalty.
C10_Witness ==
    /\ EarlyRepaymentDone
    /\ EarlySale
    /\ RGt(Get(early_repayment_metrics).early_repayment_penalty, Zero)

(***************************************************************************)
(* Properties of tax_config.py, over the log of calls.                     *)
(***************************************************************************)
IsPurchaseTaxCall(k) == calls[k].fn = "calculate_purchase_tax"
IsCapitalGainsCall(k) == calls[k].fn = "calculate_capital_gains_tax"

Schedule(is_first_house) ==
    IF is_first_house THEN FIRST_HOUSE_BRACKETS ELSE ADDITIONAL_HOUSE_BRACKETS

\* The part of bracket b the amount reaches, times the bracket's rate.
BracketShare(b, amount) ==
    IF RLt(b.min_value, amount)
    THEN RMul(RSub(RMin(amount, b.max_value), b.min_value), b.rate)
    ELSE Zero

\* The shares of the first n brackets, summed.
RECURSIVE SumOfShares(_, _, _)
SumOfShares(brackets, n, amount) ==
    IF n = 0 THEN Zero
    ELSE RAdd(SumOfShares(brackets, n - 1, amount), BracketShare(brackets[n], amount))

\* The first n brackets taxed in full.
RECURSIVE FullBrackets(_, _)
FullBrackets(brackets, n) ==
    IF n = 0 THEN Zero
    ELSE RAdd(FullBrackets(brackets, n - 1),
              RMul(RSub(brackets[n].max_value, brackets[n].min_value), brackets[n].rate))

\* C11: calculate_purchase_tax(amount) is the sum, over the brackets whose
\* lower bound is below the amount, of (min(amount, upper) - lower) * rate, and
\* 0 for amount <= 0; an amount on a boundary is taxed from the brackets below
\* it only; a first house up to 1,805,000 owes 0 and 1,805,000 + x, with
\* 0 < x <= 280,000, owes x * 0.035.
C11_PurchaseTaxIsSumOfBracketShares ==
    \A k \in 1..Len(calls) :
        IsPurchaseTaxCall(k) =>
            LET c == calls[k]
                v == c.property_value
                brackets == Schedule(c.is_first_house)
            IN  /\ c.ret = IF RLe(v, Zero) THEN Zero
                           ELSE SumOfShares(brackets, Len(brackets), v)
                /\ \A n \in 1..Len(brackets) :
                       v = brackets[n].min_value => c.ret = FullBrackets(brackets, n - 1)
                /\ (c.is_first_house /\ RLe(v, Q(1805000))) => c.ret = Zero
                /\ (c.is_first_house /\ RGt(v, Q(1805000)) /\ RLe(v, Q(1805000 + 280000)))
                       => c.ret = RMul(RSub(v, Q(1805000)), Norm(35, 1000))

\* A first house on the boundary of its third bracket: 280,000 taxed at 3.5%.
C11_Witness ==
    \E k \in 1..Len(calls) :
        /\ IsPurchaseTaxCall(k)
        /\ calls[k].is_first_house
        /\ calls[k].property_value = Q(2085000)
        /\ calls[k].ret = Q(9800)

\* The rate of the bracket an amount above 0 falls in.
RateAt(brackets, amount) ==
    LET n == CHOOSE n \in 1..Len(brackets) :
                 RLt(brackets[n].min_value, amount) /\ RLe(amount, brackets[n].max_value)
    IN  brackets[n].rate

\* C12: for each schedule the purchase tax never decreases as the amount
\* grows, it grows strictly when the larger amount lies in a bracket with a
\* positive rate, and it is 0 for an amount of 0 or less.
C12_PurchaseTaxMonotonic ==
    \A j, k \in 1..Len(calls) :
        (IsPurchaseTaxCall(j) /\ IsPurchaseTaxCall(k)
            /\ calls[j].is_first_house = calls[k].is_first_house) =>
            LET a == calls[j].property_value
                b == calls[k].property_value
            IN  /\ RLe(a, b) => RLe(calls[j].ret, calls[k].ret)
                /\ (RLt(a, b) /\ RGt(b, Zero)
                       /\ RGt(RateAt(Schedule(calls[k].is_first_house), b), Zero))
                      => RLt(calls[j].ret, calls[k].ret)
                /\ RLe(a, Zero) => calls[j].ret = Zero

\* Two first-house amounts inside the same taxed bracket.
C12_Witness ==
    \E j, k \in 1..Len(calls) :
        /\ IsPurchaseTaxCall(j) /\ IsPurchaseTaxCall(k)
        /\ calls[j].is_first_house /\ calls[k].is_first_house
        /\ calls[j].property_value = Q(1805001)
        /\ calls[k].property_value = Q(2000000)
        /\ RLt(calls[j].ret, calls[k].ret)

\* C13: the capital gains tax is max(0, sale_price - purchase_price -
\* purchase_tax_paid - improvement_costs) * 0.25: never negative, 0 when the
\* gain after deductions is 0 or less, and never raised by a larger deduction.
C13_CapitalGainsTax ==
    \A j, k \in 1..Len(calls) :
        (IsCapitalGainsCall(j) /\ IsCapitalGainsCall(k)) =>
            LET c == calls[j]
                d == calls[k]
                gain == RSub(c.sale_price,
                             RAdd(c.purchase_price,
                                  RAdd(c.purchase_tax_paid, c.improvement_costs)))
            IN  /\ c.ret = RMul(RMax(Zero, gain), Norm(25, 100))
                /\ RGe(c.ret, Zero)
                /\ RLe(gain, Zero) => c.ret = Zero
                /\ (c.sale_price = d.sale_price /\ c.purchase_price = d.purchase_price
                       /\ RLe(c.purchase_tax_paid, d.purchase_tax_paid)
                       /\ RLe(c.improvement_costs, d.improvement_costs))
                      => RLe(d.ret, c.ret)

\* A loss (deductions above the gain) next to the same sale with a taxed gain.
C13_Witness ==
    \E j, k \in 1..Len(calls) :
        /\ IsCapitalGainsCall(j) /\ IsCapitalGainsCall(k)
        /\ calls[j].sale_price = calls[k].sale_price
        /\ calls[j].purchase_price = calls[k].purchase_price
        /\ RLt(calls[j].improvement_costs, calls[k].improvement_costs)
        /\ RGt(calls[j].ret, Zero)
        /\ calls[k].ret = Zero
        /\ RLt(RSub(calls[k].sale_price,
                    RAdd(calls[k].purchase_price,
                         RAdd(calls[k].purchase_tax_paid, calls[k].improvement_costs))),
               Zero)

\* C14: for a positive value the purchase tax of an additional property is
\* strictly higher than that of a first house of the same value; for a value
\* of 0 or less both are 0.
C14_AdditionalPropertyTaxedHigher ==
    \A j, k \in 1..Len(calls) :
        (IsPurchaseTaxCall(j) /\ IsPurchaseTaxCall(k)
            /\ calls[j].property_value = calls[k].property_value
            /\ calls[j].is_first_house /\ ~calls[k].is_first_house) =>
            IF RGt(calls[j].property_value, Zero)
            THEN RGt(calls[k].ret, calls[j].ret)
            ELSE calls[j].ret = Zero /\ calls[k].ret = Zero

\* The same value above every boundary taxed under both schedules.
C14_Witness ==
    \E j, k \in 1..Len(calls) :
        /\ IsPurchaseTaxCall(j) /\ IsPurchaseTaxCall(k)
        /\ calls[j].property_value = Q(20000000)
        /\ calls[k].property_value = Q(20000000)
        /\ calls[j].is_first_house /\ ~calls[k].is_first_house
        /\ RGt(calls[k].ret, calls[j].ret)

(***************************************************************************)
(* Properties of financial.py, over the log of calls.                      *)
(***************************************************************************)
IsPmtCall(k) == calls[k].fn = "calculate_pmt"
IsCompoundGrowthCall(k) == calls[k].fn = "calculate_compound_growth"
IsCompoundValueCall(k) == calls[k].fn = "calculate_compound_value"

\* A zero-rate payment on a positive principal: the case whose double is known.
IsZeroRatePayment(k) == IsPmtCall(k) /\ calls[k].ret64 # None

\* C15 as stated: calculate_pmt returns 0 for a principal of 0 whatever the
\* rate, principal / nMonths for a rate of 0, never a negative value, and in
\* the zero-rate case the payment times n is the principal exactly.
C15_PmtAsStated ==
    \A k \in 1..Len(calls) :
        IsPmtCall(k) =>
            LET c == calls[k]
            IN  /\ c.pv = Zero => c.ret = Zero
                /\ (c.rate = Zero /\ c.pv # Zero) => c.ret = RDiv(c.pv, Q(c.nper))
                /\ RGe(c.ret, Zero)
                /\ IsZeroRatePayment(k) =>
                       DoubleMulInt(Get(c.ret64), c.nper) = DoubleOfInt(c.pv[1])

\* C15 amended: the result is never negative for a principal of 0 or more
\* with a rate of 0 or more and n > 0, and in the zero-rate case the payment times n is the principal or one of the
\* two doubles next to it.
C15_Pmt ==
    \A k \in 1..Len(calls) :
        IsPmtCall(k) =>
            LET c == calls[k]
                back == DoubleMulInt(Get(c.ret64), c.nper)
                principal == DoubleOfInt(c.pv[1])
            IN  /\ c.pv = Zero => c.ret = Zero
                /\ (c.rate = Zero /\ c.pv # Zero) => c.ret = RDiv(c.pv, Q(c.nper))
                /\ (RGe(c.pv, Zero) /\ RGe(c.rate, Zero) /\ c.nper > 0) => RGe(c.ret, Zero)
                /\ IsZeroRatePayment(k) =>
                       \/ back = principal
                       \/ NextDouble(back) = principal
                       \/ back = NextDouble(principal)

\* A zero-rate payment whose product with n is not the principal.
C15_Witness ==
    \E k \in 1..Len(calls) :
        /\ IsZeroRatePayment(k)
        /\ calls[k].pv = Q(1000000)
        /\ calls[k].nper = 240
        /\ DoubleMulInt(Get(calls[k].ret64), 240) # DoubleOfInt(1000000)

\* C16: calculate_compound_value returns the principal and
\* calculate_compound_growth returns 0 when years <= 0 or the rate is 0, and
\* on the same arguments the value less the principal is the growth.
C16_CompoundValueAndGrowthAgree ==
    \A j, k \in 1..Len(calls) :
        /\ (IsCompoundValueCall(k)
               /\ (calls[k].years <= 0 \/ calls[k].rate = Zero))
              => calls[k].ret = calls[k].principal
        /\ (IsCompoundGrowthCall(j)
               /\ (calls[j].years <= 0 \/ calls[j].rate = Zero))
              => calls[j].ret = Zero
        /\ (IsCompoundGrowthCall(j) /\ IsCompoundValueCall(k)
               /\ calls[j].principal = calls[k].principal
               /\ calls[j].rate = calls[k].rate
               /\ calls[j].years = calls[k].years)
              => RSub(calls[k].ret, calls[k].principal) = calls[j].ret

\* Two years at 100%: a growth of 3,000 on 1,000 and a value of 4,000.
C16_Witness ==
    \E j, k \in 1..Len(calls) :
        /\ IsCompoundGrowthCall(j) /\ IsCompoundValueCall(k)
        /\ calls[j].principal = Q(1000) /\ calls[k].principal = Q(1000)
        /\ calls[j].rate = One /\ calls[k].rate = One
        /\ calls[j].years = 2 /\ calls[k].years = 2
        /\ calls[j].ret = Q(3000)
        /\ calls[k].ret = Q(4000)

(***************************************************************************)
(* Properties of calculate_loan_metrics and of the metric records.         *)
(***************************************************************************)
\* A scenario with a loan and no equity.
ZeroEquity == Get(inputs).down_payment = 0

\* C17: with a loan and an equity ratio of 0, calculate_loan_metrics raises
\* nothing and sets leverage_multiplier to the infinity sentinel; for every
\* other valid scenario leverage_multiplier is 1 / equity_ratio and is finite.
C17_LeverageMultiplierSentinel ==
    LoanDone =>
        LET m == Get(loan_metrics)
        IN  /\ pc = "loan" => raised = NoError
            /\ ZeroEquity =>
                  /\ m.equity_ratio = Zero
                  /\ m.loan_amount = Q(Get(inputs).property_price)
                  /\ m.leverage_multiplier = Inf
            /\ ~ZeroEquity =>
                  /\ RGt(m.equity_ratio, Zero)
                  /\ m.leverage_multiplier = RDiv(One, m.equity_ratio)
                  /\ IsFinite(m.leverage_multiplier)

\* Loan metrics computed for a purchase financed in full.
C17_Witness ==
    /\ LoanDone
    /\ ZeroEquity
    /\ Get(loan_metrics).loan_amount = Q(Get(inputs).property_price)
    /\ Get(loan_metrics).leverage_multiplier = Inf

\* The metric records computed so far.
MetricRecords ==
    {Get(m) : m \in {loan_metrics, cash_flow_metrics, appreciation_metrics,
                     early_repayment_metrics, portfolio_metrics} \ {None}}

\* The fields the leverage multiplier is multiplied into.
LeveragedFields ==
    {"leverage_multiplier", "leveraged_rental_yield", "net_leveraged_yield",
     "leveraged_return", "net_annual_return"}

\* C20: for every valid scenario no numeric field of any metric record is NaN,
\* and an infinity appears only as the leverage-multiplier sentinel at zero
\* equity and in the fields it is multiplied into, never as 0 times infinity.
C20_MetricsWellDefined ==
    \A m \in MetricRecords :
        \A f \in DOMAIN m :
            /\ ~IsNaN(m[f])
            /\ ~IsFinite(m[f]) => (f \in LeveragedFields /\ ZeroEquity)

(***************************************************************************)
(* Properties of Yad2Scraper.                                              *)
(***************************************************************************)
\* scrape_city has finished its loop over PROPERTY_TYPES.
ScrapeCityFinished == city_name # None /\ type_index >= Len(PROPERTY_TYPES)

RECURSIVE FirstOccurrences(_, _)
\* The first k listings of s without those whose url an earlier one has.
FirstOccurrences(s, k) ==
    IF k = 0 THEN <<>>
    ELSE FirstOccurrences(s, k - 1) \o
         (IF \E j \in 1..(k - 1) : s[j].url = s[k].url THEN <<>> ELSE <<s[k]>>)

\* C18: scrape_city returns a list in which no two listings share a url, the
\* first occurrence in fetch order being the one kept, and it calls
\* fetch_listings exactly once for each entry of PROPERTY_TYPES, in order,
\* with the city's id.
C18_ScrapeCityDeduplicates ==
    ScrapeCityFinished =>
        /\ \A j, k \in 1..Len(all_listings) :
               all_listings[j].url = all_listings[k].url => j = k
        /\ all_listings = FirstOccurrences(parsed, Len(parsed))
        /\ fetch_calls = [t \in 1..Len(PROPERTY_TYPES) |->
                             <<CITY_DATA[Get(city_name)], PROPERTY_TYPES[t]>>]
        /\ (sc_pc = "done" /\ Get(op).method = "scrape_city")
              => result = Some(all_listings)

\* scrape_city("חיפה") returned four listings out of the six it parsed, the
\* token_0 listing being the one fetched first; the listing without a token
\* has no price.
C18_Witness ==
    /\ sc_pc = "done"
    /\ Get(op).method = "scrape_city"
    /\ city_name = Some("חיפה")
    /\ Len(parsed) = 6
    /\ Len(Get(result)) = 4
    /\ Get(result)[1].price = Some(1000000)
    /\ Get(result)[3].url = <<LISTING_URL_TEMPLATE, "unknown">>
    /\ Get(result)[3].price = None
    /\ Get(result)[4].url = <<LISTING_URL_TEMPLATE, "None">>
    /\ Len(fetch_calls) = 6

RECURSIVE Extended(_, _)
\* The listings of the first k returns, one after the other.
Extended(rs, k) == IF k = 0 THEN <<>> ELSE Extended(rs, k - 1) \o rs[k].listings

\* C19: an exception while fetching or parsing one property type does not
\* stop scrape_city, which attempts every property type and returns the
\* listings of the types that succeeded; scrape_all_cities goes on to the next
\* city after a city fails and returns the listings of the cities that
\* succeeded.
C19_ScrapingContinuesAfterErrors ==
    /\ ScrapeCityFinished =>
          /\ {fetch_calls[k][2] : k \in 1..Len(fetch_calls)}
                = {PROPERTY_TYPES[t] : t \in 1..Len(PROPERTY_TYPES)}
          /\ {parsed[k].url : k \in 1..Len(parsed)}
                = {all_listings[k].url : k \in 1..Len(all_listings)}
    /\ (sc_pc = "done" /\ Get(op).method = "scrape_all_cities") =>
          /\ {returns[k].city : k \in 1..Len(returns)} \cup failed_cities
                = 1..Len(Get(config_cities))
          /\ \A k \in 1..Len(returns) : returns[k].city \notin failed_cities
          /\ result = Some(Extended(returns, Len(returns)))

\* scrape_all_cities returned the listings of its second city after its
\* first city failed, and that city's first property type failed too.
C19_Witness ==
    /\ sc_pc = "done"
    /\ Get(op).method = "scrape_all_cities"
    /\ failed_cities = {1}
    /\ Len(returns) = 1
    /\ 1 \in failed_types
    /\ Len(fetch_calls) = 6
    /\ Get(result) # <<>>

(***************************************************************************)
(* Properties of calculate() and validate() under different restrictions.  *)
(***************************************************************************)
\* The calculator built from the same inputs and assumptions under the
\* restrictions r.
UnderRestrictions(r) == ScenarioCalculatorInit(Get(inputs), self.assumptions, r)

\* The stage results and summary values computed so far are those every
\* other choice of restrictions gives.
StagesIgnoreRestrictions ==
    \A r \in RestrictionsArgs :
        LET other == UnderRestrictions(r)
            loan == calculate_loan_metrics(other)
            cash_flow == calculate_cash_flow(other, loan)
            appreciation == Get(appreciation_metrics)
            early_repayment == calculate_early_repayment(other, loan, appreciation)
            portfolio == calculate_portfolio(other, cash_flow)
        IN  /\ LoanDone => Get(loan_metrics) = loan
            /\ CashFlowDone => Get(cash_flow_metrics) = cash_flow
            /\ AppreciationDone =>
                   appreciation \in calculate_appreciation(other, loan, cash_flow)
            /\ EarlyRepaymentDone => Get(early_repayment_metrics) = early_repayment
            /\ PortfolioDone => Get(portfolio_metrics) = portfolio
            /\ summary # None =>
                  /\ Get(summary).total_value_at_sale
                        = total_value_at_sale(early_repayment, portfolio)
                  /\ Get(summary).total_profit = total_profit(early_repayment, portfolio)

\* C21: two calculate() runs with the same inputs and assumptions and
\* different restrictions return results with identical stage metrics and
\* summary values; only is_valid and validation_errors may differ.
C21_RestrictionsOnlyAnnotate ==
    CalculateEnded =>
        /\ raised = NoError
        /\ StagesIgnoreRestrictions

\* The three ratios the lenient preset is described by are within its limits.
WithinLenientLimits ==
    /\ RLe(Get(loan_metrics).leverage_ratio, Norm(9, 10))
    /\ RGe(RDiv(Q(Get(inputs).down_payment), Q(Get(inputs).property_price)), Norm(1, 10))
    /\ RLe(Get(loan_metrics).mortgage_to_income_ratio, Norm(2, 5))

\* C22: under ConfigGenerator.create_lenient_restrictions() every scenario
\* with a loan-to-value of at most 0.90, a down payment of at least 10% of the
\* price and a payment-to-income ratio of at most 0.40 validates with
\* is_valid True and no errors.
C22_LenientAccepts ==
    (Validated /\ self.restrictions = LenientRestrictions /\ WithinLenientLimits) =>
        /\ Get(validation).is_valid
        /\ Get(validation).validation_errors = <<>>

(***************************************************************************)
(* Properties of the early-repayment, portfolio, appreciation, cash-flow   *)
(* and loan stages.                                                        *)
(***************************************************************************)
\* The present value of m payments of p at the rate r per period, as an
\* annuity: -p (1 - (1 + r)^-m) / r, and -p m at a rate of 0.
AnnuityPV(r, m, p) ==
    IF r = Zero THEN RNeg(RMul(p, Q(m)))
    ELSE RNeg(RMul(p, RDiv(RSub(One, RInv(RPow(RAdd(One, r), m))), r)))

\* C23: in the early-sale branch the penalty is max(0, PV(mortgage_rate / 12,
\* m, payment) - PV(early_repayment_rate / 12, m, payment)) with m the months
\* left, the remaining mortgage is the share of the term left times
\* total_payments, the penalty is never negative and is 0 when the two rates
\* are equal.
C23_EarlyRepaymentPenalty ==
    (EarlyRepaymentDone /\ EarlySale) =>
        LET term == Get(inputs).mortgage_term_years
            left == term - Get(inputs).years_until_sale
            m == left * 12
            payment == Get(loan_metrics).monthly_payment
            penalty == Get(early_repayment_metrics).early_repayment_penalty
        IN  /\ penalty =
                  RMax(Zero,
                       RSub(AnnuityPV(RDiv(self.assumptions.mortgage_rate, Twelve), m, payment),
                            AnnuityPV(RDiv(self.assumptions.early_repayment_rate, Twelve),
                                      m, payment)))
            /\ Get(early_repayment_metrics).remaining_mortgage =
                  RMul(Norm(left, term), Get(loan_metrics).total_payments)
            /\ RGe(penalty, Zero)
            /\ self.assumptions.early_repayment_rate = self.assumptions.mortgage_rate
                  => penalty = Zero

\* An early sale at equal non-zero rates: half the payments remain and no
\* penalty is due.
C23_Witness ==
    /\ EarlyRepaymentDone
    /\ EarlySale
    /\ self.assumptions.mortgage_rate = Twelve
    /\ self.assumptions.early_repayment_rate = Twelve
    /\ Get(early_repayment_metrics).early_repayment_penalty = Zero
    /\ Get(early_repayment_metrics).remaining_mortgage =
          RMul(Norm(1, 2), Get(loan_metrics).total_payments)

IsPortfolioCall(k) == calls[k].fn = "calculate_portfolio"

\* monthly_deposits * months, total_gains and the tax on them, of the exact
\* result of a logged call.
PortfolioDeposited(k) ==
    RMul(calls[k].ret.monthly_deposits, Q(calls[k].years_until_sale * 12))

PortfolioTotalGains(k) ==
    LET p == calls[k].ret
    IN  RAdd(RSub(p.accumulated_deposits, PortfolioDeposited(k)),
             RSub(p.portfolio_initial_growth, p.cash_in_portfolio))

PortfolioTax(k) ==
    IF RGt(PortfolioTotalGains(k), Zero)
    THEN RMul(PortfolioTotalGains(k), Norm(1, 4))
    ELSE Zero

\* total_gains - tax, subtracted as doubles.
GainsLessTax(k) == DoubleSub(calls[k].ret64.total_gains, calls[k].ret64.tax)

\* The largest in absolute value of the four amounts the profit is computed
\* from: portfolio_initial_growth, accumulated_deposits, cash_in_portfolio
\* and monthly_deposits * months.
LargestAmount(k) ==
    LET p == calls[k].ret64
        amounts == {p.portfolio_initial_growth, p.accumulated_deposits,
                    p.cash_in_portfolio, p.deposited}
    IN  CHOOSE x \in amounts : \A y \in amounts : DoubleAbsLe(y, x)

\* |x - y| <= 2^-48 * |amount|.
WithinRounding(x, y, amount) ==
    DoubleAbsLe(DoubleSub(x, y),
                IF amount[1] = 0 THEN DoubleZero
                ELSE <<amount[1], amount[2], amount[3] - 48>>)

\* What the claim and its amendment share. In exact arithmetic the tax is
\* a quarter of positive total_gains and 0 otherwise, portfolio_after_tax is
\* total_portfolio_value less the tax, net_portfolio_profit is
\* portfolio_after_tax less the contributions and so total_gains less the
\* tax. In doubles the three assignments are the rounded operations on the
\* stage's own doubles. At portfolio_return_rate 0 gains, tax and profit are
\* 0 in both, also with negative monthly deposits.
PortfolioAssignments(k) ==
    LET c == calls[k]
        p == c.ret
        d == c.ret64
    IN  /\ p.portfolio_after_tax = RSub(p.total_portfolio_value, PortfolioTax(k))
        /\ p.net_portfolio_profit =
               RSub(p.portfolio_after_tax, RAdd(p.cash_in_portfolio, PortfolioDeposited(k)))
        /\ p.net_portfolio_profit = RSub(PortfolioTotalGains(k), PortfolioTax(k))
        /\ d.total_gains =
               DoubleAdd(DoubleSub(d.accumulated_deposits, d.deposited),
                         DoubleSub(d.portfolio_initial_growth, d.cash_in_portfolio))
        /\ d.tax = IF d.total_gains[1] > 0 THEN DoubleTimesQuarter(d.total_gains)
                   ELSE DoubleZero
        /\ (d.tax[1] > 0) = RGt(PortfolioTax(k), Zero)
        /\ d.portfolio_after_tax = DoubleSub(d.total_portfolio_value, d.tax)
        /\ d.net_portfolio_profit =
               DoubleSub(d.portfolio_after_tax, DoubleAdd(d.cash_in_portfolio, d.deposited))
        /\ c.portfolio_return_rate = Zero =>
               /\ PortfolioTotalGains(k) = Zero
               /\ PortfolioTax(k) = Zero
               /\ p.net_portfolio_profit = Zero
               /\ d.total_gains = DoubleZero
               /\ d.tax = DoubleZero
               /\ d.net_portfolio_profit = DoubleZero

\* C24 as stated: in calculate_portfolio the tax is total_gains times
\* capital_gains_tax_rate when total_gains > 0 and 0 otherwise,
\* portfolio_after_tax is total_portfolio_value less the tax and
\* net_portfolio_profit is portfolio_after_tax less the contributions; hence
\* the net_portfolio_profit returned equals total_gains - tax, and at
\* portfolio_return_rate 0 there is no gain, no tax and no profit.
C24_PortfolioTaxAndProfitAsStated ==
    \A k \in 1..Len(calls) :
        IsPortfolioCall(k) =>
            /\ PortfolioAssignments(k)
            /\ calls[k].ret64.net_portfolio_profit = GainsLessTax(k)

\* C24 amended: the same, with net_portfolio_profit equal to total_gains - tax
\* in exact arithmetic and, of the doubles, within 2^-48 of the largest of
\* the four amounts the profit is computed from.
C24_PortfolioTaxAndProfit ==
    \A k \in 1..Len(calls) :
        IsPortfolioCall(k) =>
            /\ PortfolioAssignments(k)
            /\ WithinRounding(calls[k].ret64.net_portfolio_profit, GainsLessTax(k),
                              LargestAmount(k))

\* 241 borrowed over 20 years, 5 a month available and a
\* portfolio_return_rate of 12: the gains are taxed, and the profit returned
\* is not the double total_gains - tax but within the rounding of it.
C24_Witness ==
    \E k \in 1..Len(calls) :
        /\ IsPortfolioCall(k)
        /\ calls[k].down_payment = 0
        /\ calls[k].mortgage_term_years = 20
        /\ calls[k].monthly_available = 5
        /\ calls[k].portfolio_return_rate = Twelve
        /\ calls[k].ret64.tax[1] > 0
        /\ PortfolioAssignments(k)
        /\ calls[k].ret64.net_portfolio_profit # GainsLessTax(k)
        /\ WithinRounding(calls[k].ret64.net_portfolio_profit, GainsLessTax(k),
                          LargestAmount(k))


\* C25: total_appreciation is the urban renewal value plus the growth of the
\* property and the growth of the urban renewal value, and sale_value is the
\* price plus total_appreciation, so the urban renewal value is counted once;
\* at appreciation_rate 0 sale_value is price plus urban renewal value, and
\* with no urban renewal value either total_return_rate and annualized_return
\* are 0.
C25_AppreciationTotals ==
    AppreciationDone =>
        LET a == Get(appreciation_metrics)
            price == Q(Get(inputs).property_price)
            urban == Q(Get(inputs).urban_renewal_value)
            flat == self.assumptions.appreciation_rate = Zero
        IN  /\ a.total_appreciation =
                   RAdd(RAdd(urban, a.property_appreciation), a.urban_renewal_appreciation)
            /\ a.sale_value = RAdd(price, a.total_appreciation)
            /\ flat => a.sale_value = RAdd(price, urban)
            /\ (flat /\ urban = Zero) =>
                   /\ a.total_return_rate = Zero
                   /\ a.annualized_return = Zero

\* No appreciation, an urban renewal value at its cap: the sale value is the
\* price plus the cap, once.
C25_Witness ==
    /\ AppreciationDone
    /\ self.assumptions.appreciation_rate = Zero
    /\ Get(args).urban_renewal_value = 500000
    /\ Get(appreciation_metrics).total_appreciation = Q(UrbanRenewalCap)
    /\ Get(appreciation_metrics).sale_value =
           Q(Get(inputs).property_price + UrbanRenewalCap)


\* No step taken on a calculator changes the calculator (its inputs,
\* assumptions, restrictions and cached monthly_rent) or the inputs object.
CalculatorKept == calculator # None => (calculator' = calculator /\ inputs' = inputs)

\* Every stage called again on the calculator as it is now returns what the
\* first call returned, validate() included.
StagesRepeat ==
    LET loan == calculate_loan_metrics(self)
        cash_flow == calculate_cash_flow(self, loan)
        appreciation == Get(appreciation_metrics)
    IN  /\ self.inputs = Get(inputs)
        /\ self.monthly_rent = calculate_monthly_rent(Get(inputs), self.assumptions.rental_yield)
        /\ LoanDone => Get(loan_metrics) = loan
        /\ CashFlowDone => Get(cash_flow_metrics) = cash_flow
        /\ AppreciationDone =>
               appreciation \in calculate_appreciation(self, loan, cash_flow)
        /\ EarlyRepaymentDone =>
               Get(early_repayment_metrics) = calculate_early_repayment(self, loan, appreciation)
        /\ PortfolioDone => Get(portfolio_metrics) = calculate_portfolio(self, cash_flow)
        /\ Validated => Get(validation) = validate(self)

\* C27: no stage, validate() or calculate() modifies the calculator's inputs,
\* assumptions, restrictions or cached monthly_rent, so calculate() returns a
\* result, the same when repeated, whose is_valid and validation_errors are
\* those of validate() called alone.
C27_CalculatorIsStateless ==
    /\ [][CalculatorKept]_vars
    /\ [](calculator # None => StagesRepeat)
    /\ [](CalculateEnded => raised = NoError)


\* C28: for every valid scenario the loan metrics have loan_amount >= 0 (a
\* down payment above the price gives loan_amount 0, not a negative loan),
\* monthly_payment >= 0, leverage_ratio between 0 and 1, leverage_ratio and
\* equity_ratio adding up to 1, and leverage_ratio 0 exactly when loan_amount
\* is 0.
C28_LoanMetricsInvariants ==
    LoanDone =>
        LET l == Get(loan_metrics)
        IN  /\ RGe(l.loan_amount, Zero)
            /\ Get(inputs).down_payment > Get(inputs).property_price => l.loan_amount = Zero
            /\ RGe(l.monthly_payment, Zero)
            /\ RGe(l.leverage_ratio, Zero)
            /\ RLe(l.leverage_ratio, One)
            /\ RAdd(l.leverage_ratio, l.equity_ratio) = One
            /\ l.leverage_ratio = Zero <=> l.loan_amount = Zero

\* A down payment above the price: no loan, no leverage, no payment.
C28_Witness ==
    /\ LoanDone
    /\ Get(inputs).down_payment > Get(inputs).property_price
    /\ Get(loan_metrics).loan_amount = Zero
    /\ Get(loan_metrics).leverage_ratio = Zero
    /\ Get(loan_metrics).equity_ratio = One
    /\ Get(loan_metrics).monthly_payment = Zero


\* The input invariants in the order the claim gives them: which of them the
\* arguments a violate, and the field each message starts with.
ViolatedInOrder(a) ==
    <<a.property_price <= 0, a.down_payment < 0, a.available_cash < 0,
      a.mortgage_term_years <= 0, a.years_until_sale <= 0, a.monthly_income <= 0,
      a.improvement_costs < 0>>

MessageInOrder ==
    <<"property_price must be positive", "down_payment cannot be negative",
      "available_cash cannot be negative", "mortgage_term_years must be positive",
      "years_until_sale must be positive", "monthly_income must be positive",
      "improvement_costs cannot be negative">>

NumberViolated(a) == Cardinality({i \in 1..7 : ViolatedInOrder(a)[i]})

\* C29: when several input invariants are violated at once, the construction
\* of ScenarioInputs reports the first violated one in the order
\* property_price, down_payment, available_cash, mortgage_term_years,
\* years_until_sale, monthly_income, improvement_costs; the urban renewal
\* clamp, applied before the checks, does not change which error is raised.
C29_FirstViolatedReported ==
    args # None =>
        LET a == Get(args)
            violated == {i \in 1..7 : ViolatedInOrder(a)[i]}
        IN  /\ violated = {} <=> error = NoError
            /\ violated # {} =>
                   \E i \in violated :
                       /\ \A j \in violated : i <= j
                       /\ error = MessageInOrder[i]
            /\ error = PostInitError(a)
            /\ error = NoError =>
                   Get(inputs).urban_renewal_value = Min(a.urban_renewal_value, UrbanRenewalCap)

\* Both property_price and down_payment violated, with others after them and
\* an urban renewal value above the cap: property_price is reported.
C29_Witness ==
    /\ args # None
    /\ Get(args).property_price <= 0
    /\ Get(args).down_payment < 0
    /\ NumberViolated(Get(args)) >= 3
    /\ Get(args).urban_renewal_value > UrbanRenewalCap
    /\ error = "property_price must be positive"
    /\ inputs = None


\* validate() has reported the urban renewal value as above its maximum.
UrbanRenewalReported ==
    \E k \in 1..Len(Get(validation).validation_errors) :
        Get(validation).validation_errors[k] = MsgUrbanRenewal

\* C30: ScenarioInputs clamps urban_renewal_value to 400,000, so validate()'s
\* urban renewal check never fails under restrictions whose
\* max_urban_renewal_value is 400,000 or more (the default, the lenient
\* preset); its message appears only under a maximum below 400,000 (the strict
\* preset's 300,000), there for every value above that maximum.
C30_UrbanRenewalCheckNeedsLowerCap ==
    Validated =>
        /\ RGe(self.restrictions.max_urban_renewal_value, Q(UrbanRenewalCap))
               => ~UrbanRenewalReported
        /\ UrbanRenewalReported =>
               /\ self.restrictions = StrictRestrictions
               /\ Get(inputs).urban_renewal_value > 300000
        /\ (self.restrictions = StrictRestrictions /\ Get(args).urban_renewal_value > 300000)
               => UrbanRenewalReported

\* 500,000 passed in, clamped to 400,000, validated under the default
\* restrictions, whose maximum is 400,000: not reported.
C30_Witness ==
    /\ Validated
    /\ Get(args).urban_renewal_value = 500000
    /\ Get(inputs).urban_renewal_value = UrbanRenewalCap
    /\ self.restrictions = DefaultRestrictions
    /\ ~UrbanRenewalReported


(***************************************************************************)
(* Properties of the two cash-flow views, over the log of calls.           *)
(***************************************************************************)
IsCashFlowCall(k) == calls[k].fn = "calculate_cash_flow"

\* The calls whose stage results are also known as doubles: those with a loan.
HasDoubles(k) == IsCashFlowCall(k) /\ calls[k].ret64 # None

\* monthly_interest_flow + avg_principal_payment, added as doubles.
InterestFlowPlusPrincipal(k) ==
    DoubleAdd(Get(calls[k].ret64).monthly_interest_flow,
              Get(calls[k].ret64).avg_principal_payment)

\* x and y are one double or two doubles next to each other.
SameOrNextDouble(x, y) ==
    \/ x = y
    \/ /\ x[1] = y[1]
       /\ x[1] # 0
       /\ \/ NextDouble(Magnitude(x)) = Magnitude(y)
          \/ NextDouble(Magnitude(y)) = Magnitude(x)

\* What the claim and its amendment share: avg_principal_payment is
\* -loan_amount / (12 * mortgage_term_years), 0 without a loan and never
\* positive, total_interest is total_payments - loan_amount, and in exact
\* arithmetic monthly_net_cash_flow is monthly_interest_flow plus
\* avg_principal_payment.
CashFlowViewsExact(k) ==
    LET c == calls[k]
        l == c.loan_metrics
        f == c.ret
    IN  /\ f.avg_principal_payment =
               IF RGt(l.loan_amount, Zero)
               THEN RNeg(RDiv(l.loan_amount, Q(12 * c.mortgage_term_years)))
               ELSE Zero
        /\ RLe(f.avg_principal_payment, Zero)
        /\ l.total_interest = RSub(l.total_payments, l.loan_amount)
        /\ f.monthly_net_cash_flow =
               RAdd(f.monthly_interest_flow, f.avg_principal_payment)

\* C26 as stated: for every valid scenario avg_principal_payment is
\* -loan_amount / (12 * mortgage_term_years) (0 without a loan, never
\* positive) and the values the stage returns satisfy monthly_net_cash_flow ==
\* monthly_interest_flow + avg_principal_payment.
C26_CashFlowViewsAsStated ==
    \A k \in 1..Len(calls) :
        IsCashFlowCall(k) =>
            /\ CashFlowViewsExact(k)
            /\ HasDoubles(k) =>
                   Get(calls[k].ret64).monthly_net_cash_flow = InterestFlowPlusPrincipal(k)

\* C26 amended: the same in exact arithmetic; of the doubles the stage returns
\* monthly_interest_flow + avg_principal_payment is monthly_net_cash_flow or a
\* double next to it.
C26_CashFlowViews ==
    \A k \in 1..Len(calls) :
        IsCashFlowCall(k) =>
            /\ CashFlowViewsExact(k)
            /\ HasDoubles(k) =>
                   SameOrNextDouble(Get(calls[k].ret64).monthly_net_cash_flow,
                                    InterestFlowPlusPrincipal(k))

\* 1,000,000 borrowed over 20 years at a rate of 0: the sum of the two doubles
\* is the double next to monthly_net_cash_flow.
C26_Witness ==
    \E k \in 1..Len(calls) :
        /\ HasDoubles(k)
        /\ calls[k].property_price = 1000000
        /\ calls[k].down_payment = 0
        /\ calls[k].mortgage_term_years = 20
        /\ CashFlowViewsExact(k)
        /\ Get(calls[k].ret64).monthly_net_cash_flow # InterestFlowPlusPrincipal(k)
        /\ SameOrNextDouble(Get(calls[k].ret64).monthly_net_cash_flow,
                            InterestFlowPlusPrincipal(k))


====
